---- MODULE Spec2Model ----
(***************************************************************************)
(* BillerPRO: the bill capture workflow (UploadBill.tsx) over the local    *)
(* ledger store (store.tsx).  Text is modelled as a sequence of one-       *)
(* character strings so that the regular expressions of the masking        *)
(* engine and of the duplicate detector are computed character by          *)
(* character, as the JavaScript engine computes them.                      *)
(***************************************************************************)
EXTENDS Integers, Sequences, FiniteSets, TLC

\* ------------------------------------------------------------------------
\* Characters and JavaScript string primitives
\* ------------------------------------------------------------------------
UpperSeq == <<"A", "B", "C", "D", "E", "F", "G", "H", "I", "J", "K", "L", "M", "N", "O", "P", "Q", "R", "S", "T", "U", "V", "W", "X", "Y", "Z">>
LowerSeq == <<"a", "b", "c", "d", "e", "f", "g", "h", "i", "j", "k", "l", "m", "n", "o", "p", "q", "r", "s", "t", "u", "v", "w", "x", "y", "z">>
DigitSeq == <<"0", "1", "2", "3", "4", "5", "6", "7", "8", "9">>

Upper == {UpperSeq[i] : i \in 1..Len(UpperSeq)}
Lower == {LowerSeq[i] : i \in 1..Len(LowerSeq)}
Digit == {DigitSeq[i] : i \in 1..Len(DigitSeq)}
Letter == Upper \cup Lower
\* \w of a JavaScript regular expression
WordCh == Letter \cup Digit \cup {"_"}
\* \s of a JavaScript regular expression (the members that occur in bill text)
SpaceCh == {" ", "\n", "\t"}

\* String.prototype.toLowerCase on one character
LowerOf(c) ==
  IF c \in Upper THEN LowerSeq[CHOOSE i \in 1..Len(UpperSeq) : UpperSeq[i] = c] ELSE c

toLowerCase(s) == [i \in 1..Len(s) |-> LowerOf(s[i])]

\* true when p occurs in s at position i
OccursAt(s, p, i) ==
  /\ i >= 1
  /\ i + Len(p) - 1 <= Len(s)
  /\ \A k \in 1..Len(p) : s[i + k - 1] = p[k]

\* String.prototype.includes
includes(s, p) == \E i \in 1..(Len(s) + 1) : OccursAt(s, p, i)

\* String.prototype.startsWith
startsWith_year(s, p) == Len(s) >= 4 /\ Len(p) >= 4 /\ SubSeq(s, 1, 4) = SubSeq(p, 1, 4)
startsWith(s, p) == OccursAt(s, p, 1)

\* String.prototype.indexOf, 1-based; 0 when p does not occur
indexOf(s, p) ==
  IF includes(s, p)
  THEN CHOOSE i \in 1..(Len(s) + 1) :
         OccursAt(s, p, i) /\ \A j \in 1..(i - 1) : ~OccursAt(s, p, j)
  ELSE 0

\* String.prototype.replace(u, r) with a string pattern: the first occurrence
replaceFirst(s, u, r) ==
  LET i == indexOf(s, u) IN
  IF i = 0 THEN s
  ELSE SubSeq(s, 1, i - 1) \o r \o SubSeq(s, i + Len(u), Len(s))

\* String.prototype.trim
trim(s) ==
  LET keep == {i \in 1..Len(s) : s[i] \notin SpaceCh} IN
  IF keep = {} THEN <<>>
  ELSE SubSeq(s, CHOOSE i \in keep : \A j \in keep : i <= j,
                 CHOOSE i \in keep : \A j \in keep : i >= j)

\* s.split(' ')[0]
FirstToken(s) ==
  LET sp == {i \in 1..Len(s) : s[i] = " "} IN
  IF sp = {} THEN s
  ELSE SubSeq(s, 1, (CHOOSE i \in sp : \A j \in sp : i <= j) - 1)

\* s.replace(/^0+/, '')
StripLeadingZeros(s) ==
  LET nz == {i \in 1..Len(s) : s[i] # "0"} IN
  IF nz = {} THEN <<>>
  ELSE SubSeq(s, CHOOSE i \in nz : \A j \in nz : i <= j, Len(s))

\* parts.filter(Boolean).join(sep)
RECURSIVE JoinNonEmpty(_, _)
JoinNonEmpty(parts, sep) ==
  IF parts = <<>> THEN <<>>
  ELSE LET rest == JoinNonEmpty(Tail(parts), sep) IN
       IF Head(parts) = <<>> THEN rest
       ELSE IF rest = <<>> THEN Head(parts)
       ELSE Head(parts) \o sep \o rest

\* length of the longest run of characters of class cls that starts at i
RECURSIVE RunLen(_, _, _)
RunLen(s, cls, i) ==
  IF i > Len(s) \/ s[i] \notin cls THEN 0 ELSE 1 + RunLen(s, cls, i + 1)

\* \b : a word boundary between position i-1 and position i
WordBoundary(s, i) ==
  LET before == i - 1 >= 1 /\ i - 1 <= Len(s) /\ s[i - 1] \in WordCh
      after  == i >= 1 /\ i <= Len(s) /\ s[i] \in WordCh
  IN before # after

\* ------------------------------------------------------------------------
\* Duplicate detector: quickExtractBillNumber and the search over bills
\* ------------------------------------------------------------------------
\* values that are not strings: a failed match, null, undefined.  They are
\* one-element tuples whose element is not a character, so they compare with
\* every string and equal none.
NoMatch == <<"nomatch">>
Null == <<"null">>
Undefined == <<"undefined">>

\* elements of the five label patterns
Lit(str) == [i \in 1..Len(str) |-> [k |-> "lit", c |-> str[i], cs |-> {}]]
Ws == <<[k |-> "ws", c |-> "", cs |-> {}]>>
Opt(set) == <<[k |-> "opt", c |-> "", cs |-> set]>>
Cap == <<[k |-> "cap", c |-> "", cs |-> {}]>>
LabelTail == Opt({"."}) \o Ws \o Opt({":", "#"}) \o Ws \o Cap

\* /Invoice\s*No\.?\s*[:#]?\s*(\w+)/i and its four siblings, lower-cased
\* literals because of the i flag
billNumberPatterns ==
  << Lit(<<"i", "n", "v", "o", "i", "c", "e">>) \o Ws \o Lit(<<"n", "o">>) \o LabelTail,
     Lit(<<"b", "i", "l", "l">>) \o Ws \o Lit(<<"n", "o">>) \o LabelTail,
     Lit(<<"i", "n", "v", "o", "i", "c", "e">>) \o Ws \o Lit(<<"n", "u", "m", "b", "e", "r">>) \o Ws \o Opt({":", "#"}) \o Ws \o Cap,
     Lit(<<"i", "n", "v">>) \o Opt({"."}) \o Ws \o Lit(<<"n", "o">>) \o LabelTail,
     Lit(<<"r", "e", "c", "e", "i", "p", "t">>) \o Ws \o Lit(<<"n", "o">>) \o LabelTail >>

\* match pattern elements k.. of pat at position i of s; the capture or NoMatch.
\* The classes of neighbouring elements are disjoint, so the greedy choice is
\* the only one that can succeed and no backtracking is needed.
RECURSIVE MatchFrom(_, _, _, _)
MatchFrom(s, pat, k, i) ==
  LET e == pat[k] IN
  CASE e.k = "lit" ->
         IF i <= Len(s) /\ LowerOf(s[i]) = e.c THEN MatchFrom(s, pat, k + 1, i + 1)
         ELSE NoMatch
    [] e.k = "ws" -> MatchFrom(s, pat, k + 1, i + RunLen(s, SpaceCh, i))
    [] e.k = "opt" ->
         IF i <= Len(s) /\ s[i] \in e.cs THEN MatchFrom(s, pat, k + 1, i + 1)
         ELSE MatchFrom(s, pat, k + 1, i)
    [] e.k = "cap" ->
         LET n == RunLen(s, WordCh, i) IN
         IF n >= 1 THEN SubSeq(s, i, i + n - 1) ELSE NoMatch

\* rawText.match(pattern)[1]: the capture of the leftmost match, or NoMatch
FirstCapture(s, pat) ==
  LET starts == {i \in 1..Len(s) : MatchFrom(s, pat, 1, i) # NoMatch} IN
  IF starts = {} THEN NoMatch
  ELSE MatchFrom(s, pat, 1, CHOOSE i \in starts : \A j \in starts : i <= j)

RECURSIVE quickExtractFrom(_, _)
quickExtractFrom(rawText, n) ==
  IF n > Len(billNumberPatterns) THEN Null
  ELSE LET m == FirstCapture(rawText, billNumberPatterns[n]) IN
       IF m # NoMatch /\ Len(m) >= 2 THEN trim(m)
       ELSE quickExtractFrom(rawText, n + 1)

quickExtractBillNumber(rawText) == quickExtractFrom(rawText, 1)

BillHash == <<"B", "i", "l", "l", " ", "#">>

\* the predicate of state.bills.find in processPdfFile
NotesMatch(b, quickBillNo) ==
  LET normalizedBillNo == StripLeadingZeros(quickBillNo)
      notes == IF b.notes = Null THEN <<>> ELSE b.notes
  IN \/ includes(notes, BillHash \o quickBillNo)
     \/ (Len(normalizedBillNo) > 0 /\ includes(notes, BillHash \o normalizedBillNo))

\* index in bills of the bill the duplicate check reports, 0 when none
findDuplicate(rawText, bills) ==
  LET quickBillNo == quickExtractBillNumber(rawText) IN
  IF quickBillNo = Null THEN 0
  ELSE LET hits == {i \in 1..Len(bills) : NotesMatch(bills[i], quickBillNo)} IN
       IF hits = {} THEN 0 ELSE CHOOSE i \in hits : \A j \in hits : i <= j

\* ------------------------------------------------------------------------
\* Masking engine: maskSensitiveData
\* ------------------------------------------------------------------------
IfscMasked == <<"[", "I", "F", "S", "C", "-", "M", "A", "S", "K", "E", "D", "]">>
AcctMasked == <<"[", "A", "C", "C", "T", "-", "M", "A", "S", "K", "E", "D", "]">>
UpiMasked == <<"[", "U", "P", "I", "-", "M", "A", "S", "K", "E", "D", "]">>
BankMasked == <<"[", "B", "A", "N", "K", "-", "M", "A", "S", "K", "E", "D", "]">>

\* /\b[A-Z]{4}0[A-Z0-9]{6}\b/ matches at position i
IfscAt(s, i) ==
  /\ i + 10 <= Len(s)
  /\ \A k \in 0..3 : s[i + k] \in Upper
  /\ s[i + 4] = "0"
  /\ \A k \in 5..10 : s[i + k] \in Upper \cup Digit
  /\ WordBoundary(s, i)
  /\ WordBoundary(s, i + 11)

\* text.replace(ifscRegex, '[IFSC-MASKED]') from position i on
RECURSIVE ReplaceIfsc(_, _)
ReplaceIfsc(s, i) ==
  IF i > Len(s) THEN <<>>
  ELSE IF IfscAt(s, i) THEN IfscMasked \o ReplaceIfsc(s, i + 11)
  ELSE <<s[i]>> \o ReplaceIfsc(s, i + 1)

HasIfsc(s) == \E i \in 1..Len(s) : IfscAt(s, i)

\* the characters of the look-around class [.\\/,₹%]
AcctAdjacent == {".", "\\", "/", ",", "₹", "%"}

\* length of the match of /(?<![.\\/,₹%])\b(\d{9,18})\b(?![.\\/,₹%])/ at i, 0 when none
AcctLenAt(s, i) ==
  LET ns == {n \in 9..18 :
               /\ i + n - 1 <= Len(s)
               /\ \A k \in 0..(n - 1) : s[i + k] \in Digit
               /\ WordBoundary(s, i + n)
               /\ ~(i + n <= Len(s) /\ s[i + n] \in AcctAdjacent)}
  IN IF /\ ns # {}
        /\ WordBoundary(s, i)
        /\ ~(i - 1 >= 1 /\ s[i - 1] \in AcctAdjacent)
     THEN CHOOSE n \in ns : \A m \in ns : n >= m
     ELSE 0

RECURSIVE ReplaceAcct(_, _)
ReplaceAcct(s, i) ==
  IF i > Len(s) THEN <<>>
  ELSE LET n == AcctLenAt(s, i) IN
       IF n > 0 THEN AcctMasked \o ReplaceAcct(s, i + n)
       ELSE <<s[i]>> \o ReplaceAcct(s, i + 1)

HasAcct(s) == \E i \in 1..Len(s) : AcctLenAt(s, i) > 0

\* [\w.+-]
UpiLocalCh == WordCh \cup {".", "+", "-"}

\* length of the match of /[\w.+-]+@[a-zA-Z]+/ at i, 0 when none
UpiLenAt(s, i) ==
  LET r == RunLen(s, UpiLocalCh, i)
      d == RunLen(s, Letter, i + r + 1)
  IN IF r >= 1 /\ i + r <= Len(s) /\ s[i + r] = "@" /\ d >= 1 THEN r + 1 + d ELSE 0

\* text.match(upiRegex): the successive non-overlapping matches from i on
RECURSIVE UpiMatches(_, _)
UpiMatches(s, i) ==
  IF i > Len(s) THEN <<>>
  ELSE LET n == UpiLenAt(s, i) IN
       IF n > 0 THEN <<SubSeq(s, i, i + n - 1)>> \o UpiMatches(s, i + n)
       ELSE UpiMatches(s, i + 1)

DotCom == <<".", "c", "o", "m">>
DotIn == <<".", "i", "n">>

\* .filter(u => !u.includes('.com') && !u.includes('.in'))
upiFilter(ms) == SelectSeq(ms, LAMBDA u : ~includes(u, DotCom) /\ ~includes(u, DotIn))

\* upiMatches.forEach(u => { text = text.replace(u, '[UPI-MASKED]'); })
RECURSIVE ReplaceEach(_, _)
ReplaceEach(s, ms) ==
  IF ms = <<>> THEN s ELSE ReplaceEach(replaceFirst(s, Head(ms), UpiMasked), Tail(ms))

BankWord == {<<"B", "a", "n", "k">>, <<"B", "A", "N", "K">>}
BankNameCh == Letter \cup SpaceCh

\* position where group 2 of the bank-name expression starts when the label
\* /Bank\s*Name\s*[:\-]?\s*/ matches at i, 0 when the label does not match
BankLabelEnd(s, i) ==
  IF ~OccursAt(s, <<"B", "a", "n", "k">>, i) THEN 0
  ELSE LET a == i + 4 + RunLen(s, SpaceCh, i + 4) IN
       IF ~OccursAt(s, <<"N", "a", "m", "e">>, a) THEN 0
       ELSE LET b == a + 4 + RunLen(s, SpaceCh, a + 4)
                c == IF b <= Len(s) /\ s[b] \in {":", "-"} THEN b + 1 ELSE b
            IN c + RunLen(s, SpaceCh, c)

\* length of group 2, [A-Z][A-Za-z\s]+(?:Bank|BANK)[A-Za-z\s]*, at j; 0 when none
BankValueLen(s, j) ==
  IF ~(j >= 1 /\ j <= Len(s) /\ s[j] \in Upper) THEN 0
  ELSE LET r == RunLen(s, BankNameCh, j + 1) IN
       IF \E k \in (j + 2)..(j + r - 3) : SubSeq(s, k, k + 3) \in BankWord
       THEN 1 + r ELSE 0

\* text.replace(/(Bank\s*Name\s*[:\-]?\s*)(...)/g, '$1[BANK-MASKED]') from i on
RECURSIVE ReplaceBank(_, _)
ReplaceBank(s, i) ==
  IF i > Len(s) THEN <<>>
  ELSE LET j == BankLabelEnd(s, i)
           n == IF j = 0 THEN 0 ELSE BankValueLen(s, j)
       IN IF n > 0 THEN SubSeq(s, i, j - 1) \o BankMasked \o ReplaceBank(s, j + n)
          ELSE <<s[i]>> \o ReplaceBank(s, i + 1)

FieldIfsc == "IFSC Code"
FieldAcct == "Bank Account Number"
FieldUpi == "UPI ID"

maskSensitiveData(rawText) ==
  LET t1 == IF HasIfsc(rawText) THEN ReplaceIfsc(rawText, 1) ELSE rawText
      f1 == IF HasIfsc(rawText) THEN <<FieldIfsc>> ELSE <<>>
      t2 == IF HasAcct(t1) THEN ReplaceAcct(t1, 1) ELSE t1
      f2 == IF HasAcct(t1) THEN Append(f1, FieldAcct) ELSE f1
      upiMatches == upiFilter(UpiMatches(t2, 1))
      t3 == ReplaceEach(t2, upiMatches)
      f3 == IF Len(upiMatches) > 0 THEN Append(f2, FieldUpi) ELSE f2
  IN [maskedText |-> ReplaceBank(t3, 1), maskedFields |-> f3]

\* ------------------------------------------------------------------------
\* Numbers
\* ------------------------------------------------------------------------
DigitVal(c) == CHOOSE d \in 0..9 : DigitSeq[d + 1] = c

RECURSIVE DigitsValue(_, _)
DigitsValue(s, acc) ==
  IF s = <<>> THEN acc ELSE DigitsValue(Tail(s), 10 * acc + DigitVal(Head(s)))

\* parseFloat on the strings of the model, which carry no fraction part:
\* leading white space, an optional sign, the longest run of digits; NaN
\* (nan = TRUE) when no digit follows
parseFloat(s) ==
  LET a == 1 + RunLen(s, SpaceCh, 1)
      neg == a <= Len(s) /\ s[a] = "-"
      b == IF a <= Len(s) /\ s[a] \in {"-", "+"} THEN a + 1 ELSE a
      n == RunLen(s, Digit, b)
      v == DigitsValue(SubSeq(s, b, b + n - 1), 0)
  IN [nan |-> n = 0, v |-> IF n = 0 THEN 0 ELSE IF neg THEN 0 - v ELSE v]

\* const amount = parseFloat(extractedAmount) || 0
amountOf(extractedAmount) ==
  LET p == parseFloat(extractedAmount) IN IF p.nan THEN 0 ELSE p.v

\* ------------------------------------------------------------------------
\* Bounds and inputs
\* ------------------------------------------------------------------------
\* the last reading of Date.now() the model follows
MaxClock == 2
\* form edits the user makes in one review
MaxEdits == 1

\* the size ceiling of handleFile, in bytes
MaxFileSize == 20 * 1024 * 1024

allowed == {"application/pdf", "image/jpeg", "image/jpg", "image/png", "image/webp"}

Empty == <<>>
strAcme == <<"A", "c", "m", "e", " ", "C", "o">>
strBeta == <<"B", "e", "t", "a">>
strAsha == <<"A", "s", "h", "a">>
strAshaPadded == <<" ", "A", "s", "h", "a", " ">>
strBlank == <<" ">>
strJan12 == <<"2", "0", "2", "4", "-", "0", "1", "-", "1", "2">>
strFeb03 == <<"2", "0", "2", "4", "-", "0", "2", "-", "0", "3">>
strJan == <<"2", "0", "2", "4", "-", "0", "1">>
strFeb == <<"2", "0", "2", "4", "-", "0", "2">>
strMar == <<"2", "0", "2", "4", "-", "0", "3">>
\* new Date().toISOString().split('T')[0] on the day of the run
Today == <<"2", "0", "2", "4", "-", "0", "3", "-", "0", "5">>
str5000 == <<"5", "0", "0", "0">>
str200 == <<"2", "0", "0">>
str0 == <<"0">>
strNeg5 == <<"-", "5">>
strAbc == <<"a", "b", "c">>
strInv042 == <<"I", "N", "V", "-", "0", "4", "2">>
strInv043 == <<"I", "N", "V", "-", "0", "4", "3">>
str42 == <<"4", "2">>
str042 == <<"0", "4", "2">>

Months == {strJan, strFeb, strMar}
Confidence == {"high", "medium", "low"}

\* text the local extraction (PDF.js or Tesseract) yields for the sample files
txtInv042 == <<"I", "n", "v", "o", "i", "c", "e", " ", "N", "o", ":", " ", "I", "N", "V", "-", "0", "4", "2", " ", "I", "F", "S", "C", " ", "K", "K", "B", "K", "0", "0", "0", "2", "8", "6", "4">>
txtInv043 == <<"I", "n", "v", "o", "i", "c", "e", " ", "N", "o", ":", " ", "I", "N", "V", "-", "0", "4", "3", " ", "A", "m", "o", "u", "n", "t", ":", " ", "4", "8", "0", ".", "0", "0">>
txtBill0042 == <<"B", "i", "l", "l", " ", "N", "o", ".", " ", "0", "0", "4", "2", " ", "A", "/", "C", ":", " ", "1", "2", "3", "4", "5", "6", "7", "8", "9", "0", "1", "2">>
txtNoLabel == <<"T", "o", "t", "a", "l", " ", "5", "0", "0", "0", " ", "p", "a", "y", " ", "9", "9", "9", "8", "0", "8", "3", "8", "1", "2", "@", "k", "o", "t", "a", "k">>
txtEmail == <<"R", "e", "c", "e", "i", "p", "t", " ", "N", "o", ":", " ", "4", "2", " ", "c", "o", "n", "t", "a", "c", "t", "@", "g", "m", "a", "i", "l", ".", "c", "o", "m">>

File(name, type, size, text) == [name |-> name, type |-> type, size |-> size, text |-> text]

Files ==
  { File("inv042.pdf", "application/pdf", 1000, txtInv042),
    File("inv043.pdf", "application/pdf", MaxFileSize, txtInv043),
    File("photo.png", "image/png", MaxFileSize - 1, txtInv042),
    File("huge.pdf", "application/pdf", MaxFileSize + 1, txtInv042),
    File("huge.png", "image/png", MaxFileSize + 1, txtNoLabel),
    File("notes.txt", "text/plain", 1000, txtInv043),
    File("anim.gif", "image/gif", 1000, txtNoLabel) }

NoFile == File("", "", 0, Empty)

Conf(c, a, d) == [customerName |-> c, amount |-> a, date |-> d]

Result(customerName, amount, date, billNumber, vendorHint, confidence) ==
  [customerName |-> customerName, amount |-> amount, date |-> date,
   billNumber |-> billNumber, vendorHint |-> vendorHint, confidence |-> confidence]

\* bodies the /api/scan proxy can answer with: JSON objects (a missing field
\* is the empty string here, which the || of applyExtractionResult treats as
\* it treats undefined; confidence is <<>> when the object has none)
Results ==
  { Result(strAsha, str5000, strJan12, strInv042, strAcme, <<Conf("high", "medium", "high")>>),
    Result(strAshaPadded, str200, strFeb03, str42, Empty, <<Conf("low", "low", "low")>>),
    Result(Empty, strAbc, Empty, Empty, <<"b", "e", "t", "a", " ", "t", "r", "a", "d", "e", "r", "s">>, <<>>) }

\* what the user types into the review form
EditDates == {Empty}
EditCustomers == {strBlank}
EditAmounts == {str0}
EditBillNos == {Empty}

\* vendor lists loadState() can find persisted (made by addVendor on earlier
\* days, hence with earlier clock readings)
Vendor(t, name, cutPercent) == [id |-> [p |-> "v", t |-> t], name |-> name, cutPercent |-> cutPercent]
PersistedVendors == { <<>>, <<Vendor(-2, strAcme, 10), Vendor(-1, strBeta, 25)>> }

Tabs == {"home", "upload"}

\* ------------------------------------------------------------------------
\* State
\* ------------------------------------------------------------------------
VARIABLES
  \* store.tsx, AppState
  vendors, bills, activeTab,
  \* the last reading of Date.now()
  now,
  \* UploadBill.tsx, the useState cells of the mounted component
  stage, fileName, maskedFields, stageLabel, duplicateBill, pendingFile,
  extractedDate, extractedVendorId, extractedCustomer, extractedAmount,
  extractedBillNo, vendorHint, confidence,
  \* the pending asynchronous step of handleFile / processPdfFile and its locals
  pc, file, skipDuplicateCheck,
  \* what the last handler showed through toast.*
  toast,
  \* the bodies POSTed to /api/scan since the current file was accepted
  requests,
  \* the steps run for the current file, in order
  steps,
  \* vendors and bills when the current file was accepted
  ledgerAtStart,
  \* the number of form edits made in the current review
  edits,
  \* store.tsx, AppState: the settings
  monthlyTarget, user,
  \* the item billerpro_state of localStorage: <<>> or <<snapshot>>
  storage,
  \* the number of ledger records localStorage has room for
  quota,
  \* TRUE while the AppProvider tree is mounted
  mounted,
  \* the Drive mirror: driveStatus of the store, _inited && _accessToken of
  \* the Drive module, the files of the remote folders, the driveSync calls
  \* in flight and the number of mutations made
  driveStatus, driveReady, remote, tasks, mutations,
  \* the text handed to maskSensitiveData and the results of the passes run
  maskText, maskPasses

storeVars == <<vendors, bills, activeTab, now>>
draftVars == <<extractedDate, extractedVendorId, extractedCustomer, extractedAmount,
               extractedBillNo, vendorHint, confidence>>
viewVars == <<stage, fileName, maskedFields, stageLabel, duplicateBill, pendingFile>>
sessionVars == <<pc, file, skipDuplicateCheck>>
logVars == <<requests, steps, ledgerAtStart>>
settingsVars == <<monthlyTarget, user>>
mirrorVars == <<driveStatus, driveReady, remote, tasks, mutations>>
maskVars == <<maskText, maskPasses>>
auxVars == <<settingsVars, storage, quota, mounted, mirrorVars, maskVars>>
workflowVars == <<activeTab, draftVars, viewVars, sessionVars, logVars, toast, edits>>
vars == <<storeVars, draftVars, viewVars, sessionVars, logVars, toast, edits, auxVars>>

\* 'v' + Date.now() and 'b' + Date.now(); '' is EmptyId
Id(prefix, t) == [p |-> prefix, t |-> t]
EmptyId == Id("", 0)

HighConfidence == Conf("high", "high", "high")

Ledger == [vendors |-> vendors, bills |-> bills]
NoLedger == [vendors |-> <<>>, bills |-> <<>>]

\* ------------------------------------------------------------------------
\* store.tsx: derived reads
\* ------------------------------------------------------------------------
\* state.vendors.find(v => v.id === id): its index, 0 for undefined
findVendor(vs, id) ==
  LET hits == {i \in 1..Len(vs) : vs[i].id = id} IN
  IF hits = {} THEN 0 ELSE CHOOSE i \in hits : \A j \in hits : i <= j

getBillsForMonth_all(bs, month) == bs
getBillsForMonth(bs, month) == SelectSeq(bs, LAMBDA b : startsWith(b.date, month))

\* one term of the reduce of getEarningsForMonth.  Amounts and percentages
\* of the model make amount * cutPercent a multiple of 100, so the quotient
\* and every partial sum are integers and the double arithmetic is exact.
cutOf_dangling(vs, b) ==
  LET i == findVendor(vs, b.vendorId) IN
  (b.amount * (IF i # 0 THEN vs[i].cutPercent ELSE 10)) \div 100
cutOf(vs, b) ==
  LET i == findVendor(vs, b.vendorId) IN
  IF i # 0 THEN (b.amount * vs[i].cutPercent) \div 100 ELSE 0

RECURSIVE SumCuts(_, _)
SumCuts(vs, bs) == IF bs = <<>> THEN 0 ELSE cutOf(vs, Head(bs)) + SumCuts(vs, Tail(bs))

getEarningsForMonth(vs, bs, month) == SumCuts(vs, getBillsForMonth(bs, month))

RECURSIVE SumAmounts(_)
SumAmounts(bs) == IF bs = <<>> THEN 0 ELSE Head(bs).amount + SumAmounts(Tail(bs))

getTotalBillsForMonth(bs, month) == SumAmounts(getBillsForMonth(bs, month))

\* ------------------------------------------------------------------------
\* store.tsx: defaultState, loadState, pickPersistable
\* ------------------------------------------------------------------------
DefaultTarget == 20000
DefaultUser == [name |-> "", email |-> "", businessName |-> ""]

pickPersistable(u, vs, bs, target) ==
  [user |-> u, vendors |-> vs, bills |-> bs, monthlyTarget |-> target]

defaultState == pickPersistable(DefaultUser, <<>>, <<>>, DefaultTarget)

\* what earlier runs can have left in localStorage
PersistedStates ==
  {<<>>} \cup {<<pickPersistable(DefaultUser, vs, <<>>, DefaultTarget)>> :
                 vs \in PersistedVendors \ {<<>>}}

\* loadState(): the saved fields over the defaults
loadState(raw) == IF raw = <<>> THEN defaultState ELSE raw[1]

\* lastSync is null (the empty tuple) or the 1-tuple of the time of the sync
NeverSynced == <<>>
DriveOff == [connected |-> FALSE, syncing |-> FALSE, syncError |-> Null, lastSync |-> NeverSynced]

\* the parts of the state that stay at rest outside their specification
MirrorAtRest ==
  driveStatus = DriveOff /\ driveReady = FALSE /\ remote = <<>> /\ tasks = <<>> /\ mutations = 0
MaskAtRest == maskText = Empty /\ maskPasses = <<>>

\* ------------------------------------------------------------------------
\* Initial state: loadState(), UploadBill not mounted
\* ------------------------------------------------------------------------
ViewInit ==
  /\ stage = "upload"
  /\ fileName = ""
  /\ maskedFields = <<>>
  /\ stageLabel = ""
  /\ duplicateBill = <<>>
  /\ pendingFile = <<>>

DraftInit ==
  /\ extractedDate = Empty
  /\ extractedVendorId = EmptyId
  /\ extractedCustomer = Empty
  /\ extractedAmount = Empty
  /\ extractedBillNo = Empty
  /\ vendorHint = Empty
  /\ confidence = HighConfidence

Init ==
  /\ \E raw \in PersistedStates :
       /\ vendors = loadState(raw).vendors
       /\ bills = loadState(raw).bills
       /\ monthlyTarget = loadState(raw).monthlyTarget
       /\ user = loadState(raw).user
  /\ storage = <<pickPersistable(user, vendors, bills, monthlyTarget)>>
  /\ quota = Len(vendors) + MaxClock
  /\ mounted = TRUE
  /\ MirrorAtRest
  /\ MaskAtRest
  /\ activeTab = "home"
  /\ now = 0
  /\ ViewInit
  /\ DraftInit
  /\ pc = "idle"
  /\ file = NoFile
  /\ skipDuplicateCheck = FALSE
  /\ toast = ""
  /\ requests = <<>>
  /\ steps = <<>>
  /\ ledgerAtStart = NoLedger
  /\ edits = 0

\* a fresh mount of UploadBill: every useState cell at its initial value
Remount ==
  /\ stage' = "upload"
  /\ fileName' = ""
  /\ maskedFields' = <<>>
  /\ stageLabel' = ""
  /\ duplicateBill' = <<>>
  /\ pendingFile' = <<>>
  /\ extractedDate' = Empty
  /\ extractedVendorId' = EmptyId
  /\ extractedCustomer' = Empty
  /\ extractedAmount' = Empty
  /\ extractedBillNo' = Empty
  /\ vendorHint' = Empty
  /\ confidence' = HighConfidence

\* ------------------------------------------------------------------------
\* store.tsx and Layout.tsx: what the capture workflow uses of them
\* ------------------------------------------------------------------------
\* Layout.renderTab: leaving the upload tab unmounts UploadBill and the next
\* visit mounts a fresh one.  A tab change while an asynchronous step of a
\* capture session is pending is outside the model.
setActiveTab(tab) ==
  /\ edits' = 0
  /\ pc = "idle"
  /\ tab # activeTab
  /\ activeTab' = tab
  /\ IF activeTab = "upload" THEN Remount ELSE UNCHANGED <<viewVars, draftVars>>
  /\ toast' = ""
  /\ requests' = <<>>
  /\ steps' = <<>>
  /\ UNCHANGED <<vendors, bills, now, sessionVars, ledgerAtStart>>
  /\ UNCHANGED auxVars

\* addBill(bill): the new bill goes to the front
addBill_atEnd(bs, bill, t) == bs \o <<[id |-> Id("b", t)] @@ bill>>
addBill(bs, bill, t) == <<[id |-> Id("b", t)] @@ bill>> \o bs

\* ------------------------------------------------------------------------
\* UploadBill.tsx: the capture workflow
\* ------------------------------------------------------------------------
ToastBadType == "Please upload a PDF, JPG, or PNG"
ToastTooLarge == "File too large. Max 20MB."
ToastFailed == "Failed to read bill. Try again."
ToastNoVendor == "Please select a vendor"
ToastNoCustomer == "Customer name is required"
ToastNoAmount == "Bill amount must be greater than 0"
ToastNoDate == "Please enter the bill date"
ToastSaved == "Bill saved!"

vendorNamesOf(vs) == [i \in 1..Len(vs) |-> vs[i].name]

matchVendor(hint, vs) ==
  IF hint = Empty \/ Len(vs) = 0 THEN EmptyId
  ELSE LET h == trim(toLowerCase(hint))
           exact == {i \in 1..Len(vs) : toLowerCase(vs[i].name) = h}
           partial == {i \in 1..Len(vs) :
                         \/ includes(toLowerCase(vs[i].name), FirstToken(h))
                         \/ includes(h, FirstToken(toLowerCase(vs[i].name)))}
       IN IF exact # {} THEN vs[CHOOSE i \in exact : \A j \in exact : i <= j].id
          ELSE IF partial # {} THEN vs[CHOOSE i \in partial : \A j \in partial : i <= j].id
          ELSE vs[1].id

applyExtractionResult(result) ==
  /\ extractedDate' = IF result.date # Empty THEN result.date ELSE Today
  /\ extractedCustomer' = result.customerName
  /\ extractedAmount' = result.amount
  /\ extractedBillNo' = result.billNumber
  /\ vendorHint' = result.vendorHint
  /\ confidence' = IF result.confidence # <<>> THEN result.confidence[1] ELSE HighConfidence
  /\ extractedVendorId' = matchVendor(result.vendorHint, vendors)
  /\ stage' = "review"

\* the size test of handleFile
tooLarge_never(size) == FALSE
tooLarge(size) == size > MaxFileSize

\* the text handed to extractWithClaude for the raw text of the session
sentText_raw(rawText) == rawText
sentText(rawText) == maskSensitiveData(rawText).maskedText

\* body: JSON.stringify({ maskedText, vendorNames })
requestBody(maskedText, vendorNames) ==
  [maskedText |-> maskedText, vendorNames |-> vendorNames]

\* if (!skipDuplicateCheck)
duplicateCheckRuns_always(skip) == TRUE
duplicateCheckRuns(skip) == ~skip

\* processPdfFile returns null at a duplicate, before extractWithClaude
requestsAfterPdfText_eager(dup, body) == Append(requests, body)
requestsAfterPdfText(dup, body) ==
  IF dup # 0 THEN requests ELSE Append(requests, body)

\* handleFile up to its first await.  Sessions are followed while the clock
\* leaves room for a save.
handleFile(f) ==
  /\ edits' = 0
  /\ activeTab = "upload"
  /\ stage = "upload"
  /\ pc = "idle"
  /\ now < MaxClock
  /\ IF f.type \notin allowed
     THEN /\ toast' = ToastBadType
          /\ UNCHANGED <<viewVars, sessionVars, logVars>>
     ELSE IF tooLarge(f.size)
     THEN /\ toast' = ToastTooLarge
          /\ UNCHANGED <<viewVars, sessionVars, logVars>>
     ELSE /\ toast' = ""
          /\ fileName' = f.name
          /\ maskedFields' = <<>>
          /\ duplicateBill' = <<>>
          /\ pendingFile' = <<>>
          /\ stage' = "extracting"
          /\ stageLabel' = IF f.type = "application/pdf"
                           THEN "Reading PDF text locally..."
                           ELSE "Reading image text on device (OCR)..."
          /\ pc' = IF f.type = "application/pdf" THEN "pdf_text" ELSE "image_text"
          /\ file' = f
          /\ skipDuplicateCheck' = FALSE
          /\ requests' = <<>>
          /\ steps' = <<>>
          /\ ledgerAtStart' = Ledger
  /\ UNCHANGED <<storeVars, draftVars>>
  /\ UNCHANGED auxVars

\* the async function has returned: its locals are gone
sessionEnds ==
  /\ pc' = "idle"
  /\ file' = NoFile
  /\ skipDuplicateCheck' = FALSE
  /\ ledgerAtStart' = NoLedger

\* processPdfFile after extractTextFromPDF resolved, up to the next await
pdfTextExtracted ==
  /\ edits' = 0
  /\ pc = "pdf_text"
  /\ LET rawText == file.text
         checked == duplicateCheckRuns(skipDuplicateCheck)
         dup == IF checked THEN findDuplicate(rawText, bills) ELSE 0
         masked == maskSensitiveData(rawText)
         body == requestBody(sentText(rawText), vendorNamesOf(vendors))
     IN /\ requests' = requestsAfterPdfText(dup, body)
        /\ IF dup # 0
           THEN /\ duplicateBill' = <<[billNo |-> quickExtractBillNumber(rawText),
                                       existingBill |-> bills[dup]]>>
                /\ pendingFile' = <<file>>
                /\ stage' = "duplicate"
                /\ stageLabel' = "Checking for duplicate bill..."
                /\ sessionEnds
                /\ steps' = steps \o <<"extract", "dupcheck">>
                /\ UNCHANGED maskedFields
           ELSE /\ maskedFields' = masked.maskedFields
                /\ stage' = "processing"
                /\ stageLabel' = "Sending to Claude AI..."
                /\ pc' = "pdf_scan"
                /\ steps' = steps \o <<"extract">>
                              \o (IF checked THEN <<"dupcheck">> ELSE <<>>)
                              \o <<"mask", "send">>
                /\ UNCHANGED <<duplicateBill, pendingFile, file, skipDuplicateCheck,
                               ledgerAtStart>>
  /\ toast' = ""
  /\ UNCHANGED <<storeVars, draftVars, fileName>>
  /\ UNCHANGED auxVars

\* the catch of handleFile and of the Scan Anyway handler
sessionFailed_stuck ==
  /\ toast' = ToastFailed
  /\ stage' = stage
  /\ sessionEnds
sessionFailed ==
  /\ toast' = ToastFailed
  /\ stage' = "upload"
  /\ sessionEnds

\* extractTextFromPDF rejected: library load, file read or parse failed
pdfTextFailed ==
  /\ edits' = 0
  /\ pc = "pdf_text"
  /\ sessionFailed
  /\ steps' = Append(steps, "extract failed")
  /\ UNCHANGED <<storeVars, draftVars, fileName, maskedFields, stageLabel, duplicateBill,
                 pendingFile, requests>>
  /\ UNCHANGED auxVars

\* answers of a successful round trip: <<>> for a JSON null body, else <<object>>
Responses == {<<>>} \cup {<<r>> : r \in Results}

\* extractWithClaude resolved on the PDF path
pdfScanResolved(response) ==
  /\ edits' = 0
  /\ pc = "pdf_scan"
  /\ sessionEnds
  /\ toast' = ""
  /\ steps' = Append(steps, "response")
  /\ IF response = <<>>
     THEN \* handleFile: if (!pdfResult) return;  Scan Anyway: setStage('upload')
          /\ stage' = IF skipDuplicateCheck THEN "upload" ELSE stage
          /\ UNCHANGED draftVars
     ELSE applyExtractionResult(response[1])
  /\ UNCHANGED <<storeVars, fileName, maskedFields, stageLabel, duplicateBill, pendingFile,
                 requests>>
  /\ UNCHANGED auxVars

\* extractWithClaude rejected on the PDF path: network error or non-2xx answer
pdfScanFailed ==
  /\ edits' = 0
  /\ pc = "pdf_scan"
  /\ sessionFailed
  /\ steps' = Append(steps, "response failed")
  /\ UNCHANGED <<storeVars, draftVars, fileName, maskedFields, stageLabel, duplicateBill,
                 pendingFile, requests>>
  /\ UNCHANGED auxVars

\* extractFromImage after extractTextFromImage resolved: mask, then POST
imageTextExtracted ==
  /\ edits' = 0
  /\ pc = "image_text"
  /\ pc' = "image_scan"
  /\ requests' = Append(requests, requestBody(sentText(file.text), vendorNamesOf(vendors)))
  /\ steps' = steps \o <<"ocr", "mask", "send">>
  /\ toast' = ""
  /\ UNCHANGED <<storeVars, draftVars, viewVars, file, skipDuplicateCheck, ledgerAtStart>>
  /\ UNCHANGED auxVars

\* extractTextFromImage rejected: engine load or recognition failed
imageTextFailed ==
  /\ edits' = 0
  /\ pc = "image_text"
  /\ sessionFailed
  /\ steps' = Append(steps, "ocr failed")
  /\ UNCHANGED <<storeVars, draftVars, fileName, maskedFields, stageLabel, duplicateBill,
                 pendingFile, requests>>
  /\ UNCHANGED auxVars

\* extractWithClaude resolved on the image path
imageScanResolved(response) ==
  /\ edits' = 0
  /\ pc = "image_scan"
  /\ sessionEnds
  /\ steps' = Append(steps, "response")
  /\ LET imgMf == maskSensitiveData(file.text).maskedFields IN
     maskedFields' = IF Len(imgMf) > 0 THEN imgMf ELSE <<"No sensitive fields found">>
  /\ IF response = <<>>
     THEN \* applyExtractionResult(null) throws on result.date; the catch runs
          /\ toast' = ToastFailed
          /\ stage' = "upload"
          /\ UNCHANGED draftVars
     ELSE /\ toast' = ""
          /\ applyExtractionResult(response[1])
  /\ UNCHANGED <<storeVars, fileName, stageLabel, duplicateBill, pendingFile,
                 requests>>
  /\ UNCHANGED auxVars

\* extractWithClaude rejected on the image path
imageScanFailed ==
  /\ edits' = 0
  /\ pc = "image_scan"
  /\ sessionFailed
  /\ steps' = Append(steps, "response failed")
  /\ UNCHANGED <<storeVars, draftVars, fileName, maskedFields, stageLabel, duplicateBill,
                 pendingFile, requests>>
  /\ UNCHANGED auxVars

\* Duplicate stage: Go Back (Recommended)
goBack_keepsPending ==
  /\ edits' = 0
  /\ activeTab = "upload"
  /\ stage = "duplicate"
  /\ duplicateBill # <<>>
  /\ stage' = "upload"
  /\ fileName' = ""
  /\ duplicateBill' = <<>>
  /\ toast' = ""
  /\ UNCHANGED <<storeVars, draftVars, maskedFields, stageLabel, pendingFile, sessionVars,
                 logVars>>
  /\ UNCHANGED auxVars
goBack ==
  /\ edits' = 0
  /\ activeTab = "upload"
  /\ stage = "duplicate"
  /\ duplicateBill # <<>>
  /\ stage' = "upload"
  /\ fileName' = ""
  /\ duplicateBill' = <<>>
  /\ pendingFile' = <<>>
  /\ toast' = ""
  /\ UNCHANGED <<storeVars, draftVars, maskedFields, stageLabel, sessionVars, logVars>>
  /\ UNCHANGED auxVars

\* Duplicate stage: Scan Anyway, up to the first await of processPdfFile(file, true)
scanAnyway ==
  /\ edits' = 0
  /\ activeTab = "upload"
  /\ stage = "duplicate"
  /\ duplicateBill # <<>>
  /\ pc = "idle"
  /\ IF pendingFile = <<>>
     THEN UNCHANGED <<viewVars, sessionVars, steps, ledgerAtStart>>
     ELSE /\ file' = pendingFile[1]
          /\ ledgerAtStart' = Ledger
          /\ duplicateBill' = <<>>
          /\ pendingFile' = <<>>
          /\ skipDuplicateCheck' = TRUE
          /\ stage' = "extracting"
          /\ stageLabel' = "Reading PDF text locally..."
          /\ pc' = "pdf_text"
          /\ steps' = Append(steps, "scan anyway")
          /\ UNCHANGED <<fileName, maskedFields>>
  /\ toast' = ""
  /\ UNCHANGED <<storeVars, draftVars, requests>>
  /\ UNCHANGED auxVars

\* Review stage: the inputs of the form
editDate(d) ==
  /\ activeTab = "upload" /\ stage = "review"
  /\ extractedDate' = d
  /\ edits < MaxEdits
  /\ edits' = edits + 1
  /\ toast' = ""
  /\ UNCHANGED <<storeVars, viewVars, sessionVars, logVars, extractedVendorId,
                 extractedCustomer, extractedAmount, extractedBillNo, vendorHint, confidence>>
  /\ UNCHANGED auxVars

editBillNo(n) ==
  /\ activeTab = "upload" /\ stage = "review"
  /\ extractedBillNo # Empty
  /\ extractedBillNo' = n
  /\ edits < MaxEdits
  /\ edits' = edits + 1
  /\ toast' = ""
  /\ UNCHANGED <<storeVars, viewVars, sessionVars, logVars, extractedDate, extractedVendorId,
                 extractedCustomer, extractedAmount, vendorHint, confidence>>
  /\ UNCHANGED auxVars

editVendor(id) ==
  /\ activeTab = "upload" /\ stage = "review"
  /\ Len(vendors) > 0
  /\ id \in {EmptyId} \cup {vendors[i].id : i \in 1..Len(vendors)}
  /\ extractedVendorId' = id
  /\ edits < MaxEdits
  /\ edits' = edits + 1
  /\ toast' = ""
  /\ UNCHANGED <<storeVars, viewVars, sessionVars, logVars, extractedDate,
                 extractedCustomer, extractedAmount, extractedBillNo, vendorHint, confidence>>
  /\ UNCHANGED auxVars

editCustomer(c) ==
  /\ activeTab = "upload" /\ stage = "review"
  /\ extractedCustomer' = c
  /\ edits < MaxEdits
  /\ edits' = edits + 1
  /\ toast' = ""
  /\ UNCHANGED <<storeVars, viewVars, sessionVars, logVars, extractedDate, extractedVendorId,
                 extractedAmount, extractedBillNo, vendorHint, confidence>>
  /\ UNCHANGED auxVars

editAmount(a) ==
  /\ activeTab = "upload" /\ stage = "review"
  /\ extractedAmount' = a
  /\ edits < MaxEdits
  /\ edits' = edits + 1
  /\ toast' = ""
  /\ UNCHANGED <<storeVars, viewVars, sessionVars, logVars, extractedDate, extractedVendorId,
                 extractedCustomer, extractedBillNo, vendorHint, confidence>>
  /\ UNCHANGED auxVars

\* Review stage: Upload Different Bill
uploadDifferentBill ==
  /\ edits' = 0
  /\ activeTab = "upload" /\ stage = "review"
  /\ stage' = "upload"
  /\ fileName' = ""
  /\ maskedFields' = <<>>
  /\ toast' = ""
  /\ UNCHANGED <<storeVars, draftVars, stageLabel, duplicateBill, pendingFile,
                 sessionVars, logVars>>
  /\ UNCHANGED auxVars

IssuerPrefix == <<"I", "s", "s", "u", "e", "r", ":", " ">>
NotesSeparator == <<" ", "·", " ">>

\* the notes expression of saveBill; Undefined when both parts are absent
notesOf(hint, billNo) ==
  LET joined == JoinNonEmpty(<< IF hint # Empty THEN IssuerPrefix \o hint ELSE Empty,
                                IF billNo # Empty THEN BillHash \o billNo ELSE Empty >>,
                             NotesSeparator)
  IN IF joined = Empty THEN Undefined ELSE joined

\* which check of saveBill stops the save; "" when none does
saveBlockedBy_noAmount ==
  IF extractedVendorId = EmptyId THEN ToastNoVendor
  ELSE IF trim(extractedCustomer) = Empty THEN ToastNoCustomer
  ELSE IF extractedDate = Empty THEN ToastNoDate
  ELSE ""
saveBlockedBy ==
  IF extractedVendorId = EmptyId THEN ToastNoVendor
  ELSE IF trim(extractedCustomer) = Empty THEN ToastNoCustomer
  ELSE IF amountOf(extractedAmount) <= 0 THEN ToastNoAmount
  ELSE IF extractedDate = Empty THEN ToastNoDate
  ELSE ""

\* the argument of addBill in saveBill
draftBill ==
  [vendorId |-> extractedVendorId,
   customerName |-> trim(extractedCustomer),
   amount |-> amountOf(extractedAmount),
   date |-> extractedDate,
   confidence |-> confidence.amount,
   notes |-> notesOf(vendorHint, extractedBillNo)]

\* Review stage: Save Bill.  t is the reading of Date.now() in addBill; a
\* file selection and a network round trip lie between two saves, so the
\* clock has advanced since the last one.  The resets and
\* setActiveTab('home') of a successful save leave a fresh mount.
saveBill(t) ==
  /\ activeTab = "upload" /\ stage = "review"
  /\ IF saveBlockedBy # ""
     THEN /\ toast' = saveBlockedBy
          /\ UNCHANGED <<storeVars, draftVars, viewVars, edits, storage>>
     ELSE /\ t > now
          /\ now' = t
          /\ bills' = addBill(bills, draftBill, t)
          /\ storage' = <<pickPersistable(user, vendors, bills', monthlyTarget)>>
          /\ toast' = ToastSaved
          /\ activeTab' = "home"
          /\ Remount
          /\ edits' = 0
          /\ UNCHANGED vendors
  /\ UNCHANGED <<sessionVars, logVars, settingsVars, quota, mounted, mirrorVars, maskVars>>

\* ------------------------------------------------------------------------
\* Specification
\* ------------------------------------------------------------------------
Clock == 0..MaxClock

Next ==
  \/ \E tab \in Tabs : setActiveTab(tab)
  \/ \E f \in Files : handleFile(f)
  \/ pdfTextExtracted
  \/ pdfTextFailed
  \/ \E r \in Responses : pdfScanResolved(r)
  \/ pdfScanFailed
  \/ imageTextExtracted
  \/ imageTextFailed
  \/ \E r \in Responses : imageScanResolved(r)
  \/ imageScanFailed
  \/ goBack
  \/ scanAnyway
  \/ \E d \in EditDates : editDate(d)
  \/ \E n \in EditBillNos : editBillNo(n)
  \/ \E i \in 0..Len(vendors) : editVendor(IF i = 0 THEN EmptyId ELSE vendors[i].id)
  \/ \E c \in EditCustomers : editCustomer(c)
  \/ \E a \in EditAmounts : editAmount(a)
  \/ uploadDifferentBill
  \/ \E t \in Clock : saveBill(t)

Spec == Init /\ [][Next]_vars

\* ------------------------------------------------------------------------
\* Properties
\* ------------------------------------------------------------------------
Last(s) == s[Len(s)]
Has(s, x) == \E i \in 1..Len(s) : s[i] = x
FailureSteps == {"extract failed", "ocr failed", "response failed"}
Pdf == "application/pdf"

StageEdges ==
  { <<"upload", "extracting">>, <<"extracting", "processing">>,
    <<"extracting", "duplicate">>, <<"processing", "review">>,
    <<"duplicate", "extracting">>, <<"duplicate", "upload">>,
    <<"review", "upload">>, <<"extracting", "upload">>, <<"processing", "upload">> }

\* C1: the stage starts at Upload and every stage change follows one of the
\* edges Upload->Extracting, Extracting->Processing, Extracting->Duplicate,
\* Processing->Review, Duplicate->Extracting, Duplicate->Upload,
\* Review->Upload, Extracting->Upload, Processing->Upload; no other change
\* (such as Extracting->Review) occurs on either path.
C1_StageEdges == [][stage' # stage => <<stage, stage'>> \in StageEdges]_vars

\* C2: every request sent carries exactly the masked text of the session's
\* locally extracted text and the vendor names, nothing else; it is sent
\* after masking, and the raw text is not sent when masking changes it.
C2_RequestsCarryMaskedText ==
  [][requests' # requests /\ requests' # <<>> =>
       LET body == Last(requests')
           rawText == file.text
       IN /\ requests' = Append(requests, body)
          /\ DOMAIN body = {"maskedText", "vendorNames"}
          /\ body.maskedText = maskSensitiveData(rawText).maskedText
          /\ body.vendorNames = [i \in 1..Len(vendors) |-> vendors[i].name]
          /\ (HasIfsc(rawText) \/ HasAcct(rawText)) => body.maskedText # rawText
          /\ ~HasIfsc(body.maskedText)
          /\ Len(steps') >= 2
          /\ steps'[Len(steps')] = "send"
          /\ steps'[Len(steps') - 1] = "mask"
          /\ ~Has(steps, "send") \/ Has(steps, "scan anyway")]_vars

C2_Witness ==
  /\ stage = "processing"
  /\ Has(steps, "scan anyway")
  /\ Len(requests) = 1
  /\ includes(requests[1].maskedText, IfscMasked)

SaveBlockedToasts == {ToastNoVendor, ToastNoCustomer, ToastNoAmount, ToastNoDate}

\* C3: a save is blocked by each of: no selected vendor, customer name empty
\* after trimming, amount <= 0 or not a number, empty date.  A blocked save
\* adds no bill, keeps the stage at Review and keeps the draft; every bill in
\* the ledger has a vendor, a customer name, an amount > 0 and a date.
C3_SavePreconditions ==
  /\ [](\A i \in 1..Len(bills) :
          /\ bills[i].vendorId # EmptyId
          /\ bills[i].customerName # Empty
          /\ bills[i].amount > 0
          /\ bills[i].date # Empty)
  /\ [][stage = "review" /\ toast' \in SaveBlockedToasts \cup {ToastSaved} =>
          LET missing ==
                \/ extractedVendorId = EmptyId
                \/ \A i \in 1..Len(extractedCustomer) : extractedCustomer[i] \in SpaceCh
                \/ parseFloat(extractedAmount).nan
                \/ parseFloat(extractedAmount).v <= 0
                \/ extractedDate = Empty
          IN IF missing
             THEN /\ toast' \in SaveBlockedToasts
                  /\ Len(bills') = Len(bills)
                  /\ bills' = bills
                  /\ stage' = "review"
                  /\ UNCHANGED draftVars
             ELSE toast' = ToastSaved /\ Len(bills') = Len(bills) + 1]_vars

C3_Witness ==
  /\ stage = "review"
  /\ toast = ToastNoAmount
  /\ extractedVendorId # EmptyId
  /\ trim(extractedCustomer) # Empty
  /\ extractedDate # Empty
  /\ bills # <<>>

\* C4: when the PDF text extraction, the OCR or the field-extraction request
\* fails, also in the retry after Scan Anyway, the stage goes back to Upload,
\* a failure message is shown, and vendors and bills are as they were when
\* the session started.
C4_FailureReturnsToUpload ==
  [][steps' # steps /\ steps' # <<>> /\ Last(steps') \in FailureSteps =>
       /\ stage \in {"extracting", "processing"}
       /\ stage' = "upload"
       /\ toast' = ToastFailed
       /\ [vendors |-> vendors', bills |-> bills'] = ledgerAtStart
       /\ pc' = "idle"]_vars

C4_Witness ==
  /\ stage = "upload"
  /\ toast = ToastFailed
  /\ Has(steps, "scan anyway")
  /\ Last(steps) = "response failed"
  /\ bills # <<>>

\* C5: the duplicate check is evaluated only on the PDF path, after the text
\* extraction and before masking and before any request.  When it finds a
\* bill the session enters Duplicate with no request sent; none is sent
\* unless Scan Anyway is chosen.  An image session never evaluates it and
\* never enters Duplicate.
C5_DuplicateCheckPlacement ==
  /\ [](/\ stage = "duplicate" =>
             /\ pendingFile # <<>>
             /\ pendingFile[1].type = Pdf
             /\ duplicateBill # <<>>
             /\ steps = <<"extract", "dupcheck">>
             /\ requests = <<>>
        /\ \A i \in 1..Len(steps) :
             steps[i] = "dupcheck" => i = 2 /\ steps[1] = "extract"
        /\ Has(steps, "ocr") => ~Has(steps, "dupcheck")
        /\ pc \in {"image_text", "image_scan"} => stage # "duplicate"
        /\ Has(steps, "dupcheck") /\ duplicateBill # <<>> /\ ~Has(steps, "scan anyway")
             => requests = <<>>)
  /\ [][pc = "pdf_text" /\ Len(steps') >= Len(steps) + 2
                         /\ steps'[Len(steps) + 2] = "dupcheck" =>
          IF findDuplicate(file.text, bills) # 0
          THEN /\ stage' = "duplicate"
               /\ steps' = <<"extract", "dupcheck">>
               /\ requests' = <<>>
               /\ duplicateBill' # <<>>
               /\ duplicateBill'[1].existingBill = bills[findDuplicate(file.text, bills)]
          ELSE /\ stage' = "processing"
               /\ steps' = <<"extract", "dupcheck", "mask", "send">>
               /\ Len(requests') = 1]_vars

C5_Witness ==
  /\ stage = "duplicate"
  /\ pendingFile # <<>>
  /\ requests = <<>>
  /\ duplicateBill # <<>>
  /\ duplicateBill[1].existingBill = bills[1]

\* C6: the retry started by Scan Anyway never evaluates the duplicate check:
\* whatever bills the ledger holds it cannot enter Duplicate again, and it
\* ends in Review or in Upload.
C6_RetrySkipsDuplicateCheck ==
  /\ [](\A i \in 1..Len(steps) :
          steps[i] = "scan anyway" => \A j \in i + 1..Len(steps) : steps[j] # "dupcheck")
  /\ [][skipDuplicateCheck /\ pc # "idle" =>
          /\ stage' # "duplicate"
          /\ pc' = "idle" => stage' \in {"review", "upload"}]_vars

C6_Witness ==
  /\ stage = "review"
  /\ Has(steps, "scan anyway")
  /\ Last(steps) = "response"
  /\ bills # <<>>
  /\ \E f \in Files : f.name = fileName /\ findDuplicate(f.text, bills) # 0

SavedBillNumber(b) ==
  LET k == indexOf(b.notes, BillHash) IN
  IF k = 0 THEN Empty ELSE SubSeq(b.notes, k + Len(BillHash), Len(b.notes))

\* the number that follows the label in an uploaded text; Empty without label
LabelledNumber(rawText) ==
  CASE rawText = txtInv042 -> strInv042
    [] rawText = txtInv043 -> strInv043
    [] rawText = txtBill0042 -> <<"0", "0", "4", "2">>
    [] rawText = txtEmail -> str42
    [] OTHER -> Empty

UploadedTexts == {txtInv042, txtInv043, txtBill0042, txtNoLabel, txtEmail}

\* C9: round trip of the duplicate detection.  For a saved bill whose notes
\* contain 'Bill #N' and an uploaded text whose label is followed by the
\* number M, findDuplicate returns that bill when M = N or M and N are equal
\* up to leading zeros, and returns no duplicate when M is a different
\* number (INV-042 against INV-043) or when the text has no labelled number.
C9_DuplicateRoundTrip ==
  \A i \in 1..Len(bills) : \A rawText \in UploadedTexts :
    LET N == SavedBillNumber(bills[i])
        M == LabelledNumber(rawText)
        found == findDuplicate(rawText, <<bills[i]>>)
    IN N # Empty =>
         IF M # Empty /\ (M = N \/ StripLeadingZeros(M) = StripLeadingZeros(N))
         THEN found = 1
         ELSE found = 0

AcceptedFile == pc # "idle" \/ pendingFile # <<>>
CurrentFile == IF pc # "idle" THEN file ELSE pendingFile[1]

\* C10 as stated: a file is accepted only if its MIME type is one of
\* application/pdf, image/jpeg, image/jpg, image/png, image/webp and its
\* size is under 20 MiB; a file of exactly 20 MiB is rejected.
C10_AcceptedUnder20MiB ==
  AcceptedFile =>
    /\ CurrentFile.type \in allowed
    /\ CurrentFile.size < 20 * 1024 * 1024

\* C10 as the code has it: a file is accepted only if its MIME type is one
\* of the five allowed types and its size is at most 20 MiB, a file of
\* exactly 20 MiB included.  For every other file the stage stays Upload, a
\* validation message is shown and no extraction, OCR or network step starts.
C10_AcceptedUpTo20MiB ==
  /\ [](AcceptedFile =>
          /\ CurrentFile.type \in allowed
          /\ CurrentFile.size <= 20 * 1024 * 1024)
  /\ [][\A f \in Files :
          handleFile(f) =>
            IF f.type \in allowed /\ f.size <= 20 * 1024 * 1024
            THEN /\ file' = f
                 /\ stage' = "extracting"
                 /\ pc' # "idle"
            ELSE /\ toast' \in {ToastBadType, ToastTooLarge}
                 /\ stage = "upload" /\ stage' = "upload"
                 /\ pc' = "idle"
                 /\ UNCHANGED <<requests, steps, file, storeVars>>]_vars

C10_Witness ==
  /\ stage = "upload"
  /\ pc = "idle"
  /\ toast = ToastTooLarge
  /\ steps = <<>>
  /\ requests = <<>>

\* ------------------------------------------------------------------------
\* store.tsx: the ledger mutations of AppProvider
\* ------------------------------------------------------------------------
MaxRecords == 3

\* the room localStorage can have: for every ledger of the model, or for all
\* but a full one
Quotas == {MaxRecords - 1, MaxRecords}

strJan31 == <<"2", "0", "2", "4", "-", "0", "1", "-", "3", "1">>

\* the arguments the callers pass to addVendor and updateVendor
VendorInputs == { <<strAcme, 10>>, <<strBeta, 25>> }
VendorUpdates == { <<strAcme, 25>> }

\* a vendor id no vendor of the ledger carries
DanglingId == Id("v", -9)

\* the arguments the callers pass to addBill
BillInput(vendorId, amount, date) ==
  [vendorId |-> vendorId, customerName |-> strAsha, amount |-> amount, date |-> date,
   confidence |-> "high", notes |-> Undefined]
BillInputs ==
  { BillInput(id, ad[1], ad[2]) :
      id \in {vendors[i].id : i \in 1..Len(vendors)} \cup {DanglingId},
      ad \in { <<5000, strJan12>>, <<200, strJan31>>, <<200, strFeb03>> } }

\* the readings Date.now() can give: the millisecond of the last reading or a later one
Readings == {t \in Clock : t = now \/ t = now + 1}

\* the effect that writes the state to localStorage after a change; the
\* catch swallows a failing setItem
persistEffect ==
  /\ storage' = IF Len(vendors') + Len(bills') <= quota
                THEN <<pickPersistable(user', vendors', bills', monthlyTarget')>>
                ELSE storage
  /\ UNCHANGED quota

addVendor(name, cutPercent, t) ==
  /\ mounted
  /\ Len(vendors) + Len(bills) < MaxRecords
  /\ now' = t
  /\ vendors' = Append(vendors, Vendor(t, name, cutPercent))
  /\ UNCHANGED <<bills, settingsVars, mounted, mirrorVars, maskVars, workflowVars>>
  /\ persistEffect

updateVendor(id, name, cutPercent) ==
  /\ mounted
  /\ vendors' = [i \in 1..Len(vendors) |->
                   IF vendors[i].id = id
                   THEN [vendors[i] EXCEPT !.name = name, !.cutPercent = cutPercent]
                   ELSE vendors[i]]
  /\ UNCHANGED <<bills, now, settingsVars, mounted, mirrorVars, maskVars, workflowVars>>
  /\ persistEffect

deleteVendor(id) ==
  /\ mounted
  /\ vendors' = SelectSeq(vendors, LAMBDA v : v.id # id)
  /\ bills' = SelectSeq(bills, LAMBDA b : b.vendorId # id)
  /\ UNCHANGED <<now, settingsVars, mounted, mirrorVars, maskVars, workflowVars>>
  /\ persistEffect

addBillCalled(bill, t) ==
  /\ mounted
  /\ Len(vendors) + Len(bills) < MaxRecords
  /\ now' = t
  /\ bills' = addBill(bills, bill, t)
  /\ UNCHANGED <<vendors, settingsVars, mounted, mirrorVars, maskVars, workflowVars>>
  /\ persistEffect

deleteBill(id) ==
  /\ mounted
  /\ bills' = SelectSeq(bills, LAMBDA b : b.id # id)
  /\ UNCHANGED <<vendors, now, settingsVars, mounted, mirrorVars, maskVars, workflowVars>>
  /\ persistEffect

VendorIds == {vendors[i].id : i \in 1..Len(vendors)}
BillIds == {bills[i].id : i \in 1..Len(bills)}

\* The functional updaters of the mutations (setState(s => ...)): each one
\* computes the next ledger from the state s it is handed, never from the
\* state the calling component rendered with. Date.now() is read when the
\* updater runs.
AddVendorCall(name, cutPercent) == [op |-> "addVendor", name |-> name, cutPercent |-> cutPercent]
DeleteVendorCall(id) == [op |-> "deleteVendor", id |-> id]
AddBillCall(bill) == [op |-> "addBill", bill |-> bill]

updater_stale(m, s, t) ==
  CASE m.op = "addVendor" ->
         [s EXCEPT !.vendors = Append(vendors, Vendor(t, m.name, m.cutPercent)),
                   !.bills = bills]
    [] m.op = "deleteVendor" ->
         [s EXCEPT !.vendors = SelectSeq(vendors, LAMBDA v : v.id # m.id),
                   !.bills = SelectSeq(bills, LAMBDA b : b.vendorId # m.id)]
    [] m.op = "addBill" ->
         [s EXCEPT !.bills = addBill(bills, m.bill, t), !.vendors = vendors]
updater(m, s, t) ==
  CASE m.op = "addVendor" ->
         [s EXCEPT !.vendors = Append(s.vendors, Vendor(t, m.name, m.cutPercent))]
    [] m.op = "deleteVendor" ->
         [s EXCEPT !.vendors = SelectSeq(s.vendors, LAMBDA v : v.id # m.id),
                   !.bills = SelectSeq(s.bills, LAMBDA b : b.vendorId # m.id)]
    [] m.op = "addBill" ->
         [s EXCEPT !.bills = addBill(s.bills, m.bill, t)]

\* React keeps the updaters queued by one event in order and, at the next
\* render, hands each the state the one before it returned
RECURSIVE applyQueued(_, _, _)
applyQueued(s, queue, ts) ==
  IF queue = <<>> THEN s
  ELSE applyQueued(updater(Head(queue), s, Head(ts)), Tail(queue), Tail(ts))

Adds(queue) == Cardinality({i \in 1..Len(queue) : queue[i].op # "deleteVendor"})

\* one event handler issues the mutations of queue back to back, before any
\* re-render (confirmDelete: selectedIds.forEach(id => deleteVendor(id)));
\* the state is rendered, and persisted, once, after the last updater
mutationsInOneEvent(queue, ts) ==
  /\ mounted
  /\ Len(vendors) + Len(bills) + Adds(queue) <= MaxRecords
  /\ now' = ts[Len(ts)]
  /\ LET s == applyQueued(Ledger, queue, ts) IN
       /\ vendors' = s.vendors
       /\ bills' = s.bills
  /\ UNCHANGED <<settingsVars, mounted, mirrorVars, maskVars, workflowVars>>
  /\ persistEffect

\* the events that issue two mutations: two bills, a bill and a vendor, the
\* bulk delete of two selected vendors
BatchBills == { BillInput(DanglingId, 5000, strJan12), BillInput(DanglingId, 200, strFeb03) }
TwoBills == { <<AddBillCall(b1), AddBillCall(b2)>> : b1 \in BatchBills, b2 \in BatchBills }
BillAndVendor == { <<AddBillCall(b), AddVendorCall(strBeta, 25)>> : b \in BatchBills }
BulkDeletes ==
  { <<DeleteVendorCall(ids[1]), DeleteVendorCall(ids[2])>> :
      ids \in {p \in VendorIds \X VendorIds : p[1] # p[2]} }
BatchReadings == { p \in Readings \X Clock : p[2] >= p[1] /\ p[2] <= p[1] + 1 }

StoreInit ==
  /\ vendors = defaultState.vendors
  /\ bills = defaultState.bills
  /\ monthlyTarget = defaultState.monthlyTarget
  /\ user = defaultState.user
  /\ storage = <<defaultState>>
  /\ quota \in Quotas
  /\ mounted = TRUE
  /\ now = 0
  /\ activeTab = "home"
  /\ ViewInit
  /\ DraftInit
  /\ pc = "idle"
  /\ file = NoFile
  /\ skipDuplicateCheck = FALSE
  /\ toast = ""
  /\ requests = <<>>
  /\ steps = <<>>
  /\ ledgerAtStart = NoLedger
  /\ edits = 0
  /\ MirrorAtRest
  /\ MaskAtRest

StoreNext ==
  \/ \E in \in VendorInputs, t \in Readings : addVendor(in[1], in[2], t)
  \/ \E id \in VendorIds, in \in VendorUpdates : updateVendor(id, in[1], in[2])
  \/ \E id \in VendorIds : deleteVendor(id)
  \/ \E bill \in BillInputs, t \in Readings : addBillCalled(bill, t)
  \/ \E id \in BillIds : deleteBill(id)
  \/ \E queue \in TwoBills, ts \in BatchReadings : mutationsInOneEvent(queue, ts)
  \/ \E queue \in BillAndVendor, ts \in BatchReadings : mutationsInOneEvent(queue, ts)
  \/ \E queue \in BulkDeletes, ts \in BatchReadings : mutationsInOneEvent(queue, ts)

StoreSpec == StoreInit /\ [][StoreNext]_vars

\* ------------------------------------------------------------------------
\* Properties of the ledger store
\* ------------------------------------------------------------------------
\* C11: after any sequence of addVendor, addBill, updateVendor, deleteVendor
\* and deleteBill no two vendors share an id and no two bills share an id,
\* also when two records are created within the same clock millisecond.
C11_UniqueIds ==
  /\ \A i, j \in 1..Len(vendors) : i # j => vendors[i].id # vendors[j].id
  /\ \A i, j \in 1..Len(bills) : i # j => bills[i].id # bills[j].id

\* the positions of the bills of a month, and whether a bill has a vendor
InMonth(month) == {i \in 1..Len(bills) : Len(bills[i].date) >= 7 /\ SubSeq(bills[i].date, 1, 7) = month}
Resolves(i) == \E k \in 1..Len(vendors) : vendors[k].id = bills[i].vendorId
FirstWithId(id) == CHOOSE k \in 1..Len(vendors) :
                     vendors[k].id = id /\ \A j \in 1..k - 1 : vendors[j].id # id

RECURSIVE SumOver(_, _)
SumOver(S, term) ==
  IF S = {} THEN 0
  ELSE LET i == CHOOSE x \in S : TRUE IN term[i] + SumOver(S \ {i}, term)

\* C12: getEarningsForMonth(m) is the sum of amount * cutPercent / 100 over
\* exactly the bills of month m whose vendorId resolves to a vendor of the
\* ledger; a bill whose vendorId matches no vendor contributes 0 and still
\* appears in getBillsForMonth(m) and counts in getTotalBillsForMonth(m).
C12_EarningsSkipDangling ==
  \A m \in Months :
    LET paid == {i \in InMonth(m) : Resolves(i)}
        share == [i \in paid |->
                   (bills[i].amount * vendors[FirstWithId(bills[i].vendorId)].cutPercent) \div 100]
        amountAt == [i \in InMonth(m) |-> bills[i].amount]
    IN /\ getEarningsForMonth(vendors, bills, m) = SumOver(paid, share)
       /\ getTotalBillsForMonth(bills, m) = SumOver(InMonth(m), amountAt)
       /\ \A i \in InMonth(m) :
            \E k \in 1..Len(getBillsForMonth(bills, m)) : getBillsForMonth(bills, m)[k] = bills[i]

C12_Witness ==
  /\ \E i \in InMonth(strJan) : ~Resolves(i)
  /\ \E i \in InMonth(strJan) : Resolves(i)
  /\ getEarningsForMonth(vendors, bills, strJan) = 500
  /\ getTotalBillsForMonth(bills, strJan) = 5200

\* C13: for every ledger and every month key m, getBillsForMonth(m) is
\* exactly the bills whose date starts with m, in ledger order, whatever the
\* day; no bill of another month is included and none of month m is left out.
C13_BillsOfMonth ==
  \A m \in Months :
    LET r == getBillsForMonth(bills, m)
        idx == InMonth(m)
        nth(k) == CHOOSE i \in idx : Cardinality({j \in idx : j <= i}) = k
    IN /\ Len(r) = Cardinality(idx)
       /\ \A k \in 1..Len(r) : r[k] = bills[nth(k)]

C13_Witness ==
  /\ Len(bills) = 3
  /\ Cardinality(InMonth(strJan)) = 2
  /\ Cardinality(InMonth(strFeb)) = 1
  /\ \E i, j \in InMonth(strJan) : bills[i].date # bills[j].date
  /\ Len(getBillsForMonth(bills, strJan)) = 2

\* C14: deleteVendor(id) removes exactly the vendor with that id and leaves
\* bills unchanged: the bills of the deleted vendor stay in the ledger with
\* a dangling vendorId.
C14_DeleteVendorKeepsBills ==
  [][\A id \in VendorIds :
       deleteVendor(id) =>
         /\ vendors' = SelectSeq(vendors, LAMBDA v : v.id # id)
         /\ bills' = bills]_vars

\* ------------------------------------------------------------------------
\* The store with the Drive mirror (src/unnamed/part_001) over the Drive
\* storage layer (the second part of src/src/app/App.tsx)
\* ------------------------------------------------------------------------
MaxMutations == 3

ErrNotConnected == <<"Drive not connected">>
ErrCreateFailed == <<"Create file failed">>
ErrDriveApi == <<"Drive API error">>
ErrFetch == <<"Failed to fetch">>

\* VENDORS_FILE, SETTINGS_FILE and `bill_${id}.json`
FileName(kind, id) == [kind |-> kind, id |-> id]
VendorsFile == FileName("vendors", EmptyId)
SettingsFile == FileName("settings", EmptyId)
BillFile(id) == FileName("bill", id)

\* the inputs of the mutations
MirrorVendorInputs == { <<strAcme, 10>> }
MirrorVendorUpdates == { <<strAcme, 25>> }
MirrorBillInputs == { BillInput(IF vendors = <<>> THEN DanglingId ELSE vendors[1].id, 5000, strJan12) }
TargetInputs == { 30000 }
ProfileInputs == { [name |-> "Yash"] }

\* the outcomes of a request to the Drive API
FindOutcomes == {"ok", "error"}
WriteOutcomes == {"ok", "http error", "network error"}

\* _findFile: the id of the first file of that name, 0 for null
findFile(name) ==
  LET hits == {i \in 1..Len(remote) : remote[i].name = name} IN
  IF hits = {} THEN 0 ELSE remote[CHOOSE i \in hits : \A j \in hits : i <= j].id

\* an id the Drive gives to a new file
freshFileId ==
  LET used == {remote[i].id : i \in 1..Len(remote)} \cup {tasks[i].existingId : i \in 1..Len(tasks)}
  IN CHOOSE n \in 1..(Len(remote) + Len(tasks) + 1) : n \notin used

Task(kind, name, data) == [kind |-> kind, name |-> name, data |-> data, pc |-> "find", existingId |-> 0]

\* the effect of part_001 that writes the state to localStorage after every
\* change; a setItem that throws is not caught and takes the tree down
persistMirrored ==
  /\ IF Len(vendors') + Len(bills') <= quota
     THEN /\ storage' = <<[driveStatus |-> [connected |-> driveStatus'.connected,
                                             lastSync |-> driveStatus'.lastSync]]
                            @@ pickPersistable(user', vendors', bills', monthlyTarget')>>
          /\ mounted' = mounted
     ELSE /\ storage' = storage
          /\ mounted' = FALSE
  /\ UNCHANGED quota

\* driveSync(fn) as called from a mutation: syncing is set, then fn runs up
\* to its first await.  A save that finds the module without token returns
\* (vendors, settings, delete) or throws (bill) before any request.
driveSync(kind, name, data) ==
  IF ~driveStatus.connected
  THEN /\ mutations' = mutations + 1
       /\ UNCHANGED <<driveStatus, tasks>>
  ELSE IF driveReady
  THEN /\ driveStatus' = [driveStatus EXCEPT !.syncing = TRUE, !.syncError = Null]
       /\ tasks' = Append(tasks, Task(kind, name, data))
       /\ mutations' = mutations + 1
  ELSE /\ tasks' = tasks
       /\ mutations' = mutations + 1
       /\ driveStatus' =
            IF kind = "bill"
            THEN [driveStatus EXCEPT !.syncing = FALSE, !.syncError = ErrNotConnected]
            ELSE [driveStatus EXCEPT !.syncing = FALSE, !.syncError = Null, !.lastSync = <<now'>>]

MutationGuard == mounted /\ mutations < MaxMutations

\* localStorage is full from the start, or has room for every record
MirrorQuotas == {0, MaxRecords}

addVendorSynced(name, cutPercent, t) ==
  /\ MutationGuard
  /\ Len(vendors) + Len(bills) < MaxRecords
  /\ now' = t
  /\ vendors' = Append(vendors, Vendor(t, name, cutPercent))
  /\ driveSync("vendors", VendorsFile, [vendors |-> vendors'])
  /\ UNCHANGED <<bills, settingsVars, driveReady, remote, maskVars, workflowVars>>
  /\ persistMirrored

updateVendorSynced(id, name, cutPercent) ==
  /\ MutationGuard
  /\ vendors' = [i \in 1..Len(vendors) |->
                   IF vendors[i].id = id
                   THEN [vendors[i] EXCEPT !.name = name, !.cutPercent = cutPercent]
                   ELSE vendors[i]]
  /\ now' = now
  /\ driveSync("vendors", VendorsFile, [vendors |-> vendors'])
  /\ UNCHANGED <<bills, settingsVars, driveReady, remote, maskVars, workflowVars>>
  /\ persistMirrored

deleteVendorSynced(id) ==
  /\ MutationGuard
  /\ vendors' = SelectSeq(vendors, LAMBDA v : v.id # id)
  /\ now' = now
  /\ driveSync("vendors", VendorsFile, [vendors |-> vendors'])
  /\ UNCHANGED <<bills, settingsVars, driveReady, remote, maskVars, workflowVars>>
  /\ persistMirrored

addBillSynced(bill, t) ==
  /\ MutationGuard
  /\ Len(vendors) + Len(bills) < MaxRecords
  /\ now' = t
  /\ bills' = addBill(bills, bill, t)
  /\ driveSync("bill", BillFile(Id("b", t)), Head(bills'))
  /\ UNCHANGED <<vendors, settingsVars, driveReady, remote, maskVars, workflowVars>>
  /\ persistMirrored

deleteBillSynced(id) ==
  /\ MutationGuard
  /\ bills' = SelectSeq(bills, LAMBDA b : b.id # id)
  /\ now' = now
  /\ driveSync("deleteBill", BillFile(id), <<>>)
  /\ UNCHANGED <<vendors, settingsVars, driveReady, remote, maskVars, workflowVars>>
  /\ persistMirrored

setMonthlyTarget(val) ==
  /\ MutationGuard
  /\ monthlyTarget' = val
  /\ now' = now
  /\ driveSync("settings", SettingsFile, [monthlyTarget |-> val, user |-> user])
  /\ UNCHANGED <<vendors, bills, user, driveReady, remote, maskVars, workflowVars>>
  /\ persistMirrored

setUserProfile(profile) ==
  /\ MutationGuard
  /\ user' = profile @@ user
  /\ now' = now
  /\ driveSync("settings", SettingsFile, [monthlyTarget |-> monthlyTarget, user |-> user'])
  /\ UNCHANGED <<vendors, bills, monthlyTarget, driveReady, remote, maskVars, workflowVars>>
  /\ persistMirrored

\* connectDrive after initDrive has resolved: the module holds a token and
\* driveStatus is replaced as a whole
connectDrive ==
  /\ mounted
  /\ ~driveReady
  /\ driveReady' = TRUE
  /\ driveStatus' = [connected |-> TRUE, syncing |-> FALSE, syncError |-> Null, lastSync |-> <<now>>]
  /\ UNCHANGED <<storeVars, settingsVars, remote, tasks, mutations, maskVars, workflowVars>>
  /\ persistMirrored

RemoveAt(s, i) == SubSeq(s, 1, i - 1) \o SubSeq(s, i + 1, Len(s))

\* the two ends of driveSync; an update of an unmounted tree is dropped
syncSucceeded ==
  IF mounted
  THEN driveStatus' = [driveStatus EXCEPT !.syncing = FALSE, !.lastSync = <<now>>]
  ELSE driveStatus' = driveStatus

syncFailed(message) ==
  IF mounted
  THEN driveStatus' = [driveStatus EXCEPT !.syncing = FALSE, !.syncError = message]
  ELSE driveStatus' = driveStatus

persistIfMounted ==
  IF mounted THEN persistMirrored ELSE UNCHANGED <<storage, quota, mounted>>

\* the answer to the _findFile request of a save or a delete
findResolved(i, outcome) ==
  /\ i \in 1..Len(tasks)
  /\ tasks[i].pc = "find"
  /\ LET id == findFile(tasks[i].name) IN
     IF outcome = "error"
     THEN tasks' = RemoveAt(tasks, i) /\ syncFailed(ErrDriveApi)
     ELSE IF tasks[i].kind = "deleteBill" /\ id = 0
     THEN tasks' = RemoveAt(tasks, i) /\ syncSucceeded
     ELSE /\ tasks' = [tasks EXCEPT ![i].pc = IF tasks[i].kind = "deleteBill" THEN "remove" ELSE "write",
                                    ![i].existingId = id]
          /\ driveStatus' = driveStatus
  /\ UNCHANGED <<storeVars, settingsVars, driveReady, remote, mutations, maskVars, workflowVars>>
  /\ persistIfMounted

\* _writeJson: the answer to the PATCH of an existing file, whose status is
\* not looked at, or to the POST of a new one
writeResolved(i, outcome) ==
  /\ i \in 1..Len(tasks)
  /\ tasks[i].pc = "write"
  /\ tasks' = RemoveAt(tasks, i)
  /\ IF tasks[i].existingId # 0
     THEN /\ remote' = IF outcome = "ok"
                       THEN [k \in 1..Len(remote) |->
                               IF remote[k].id = tasks[i].existingId
                               THEN [remote[k] EXCEPT !.data = tasks[i].data]
                               ELSE remote[k]]
                       ELSE remote
          /\ IF outcome = "network error" THEN syncFailed(ErrFetch) ELSE syncSucceeded
     ELSE /\ remote' = IF outcome = "ok"
                       THEN Append(remote, [id |-> freshFileId, name |-> tasks[i].name, data |-> tasks[i].data])
                       ELSE remote
          /\ IF outcome = "ok" THEN syncSucceeded
             ELSE IF outcome = "http error" THEN syncFailed(ErrCreateFailed)
             ELSE syncFailed(ErrFetch)
  /\ UNCHANGED <<storeVars, settingsVars, driveReady, mutations, maskVars, workflowVars>>
  /\ persistIfMounted

\* deleteBillFromDrive: the answer to the DELETE of the file found
removeResolved(i, outcome) ==
  /\ i \in 1..Len(tasks)
  /\ tasks[i].pc = "remove"
  /\ tasks' = RemoveAt(tasks, i)
  /\ IF outcome = "ok"
     THEN /\ remote' = SelectSeq(remote, LAMBDA f : f.id # tasks[i].existingId)
          /\ syncSucceeded
     ELSE /\ remote' = remote
          /\ syncFailed(ErrDriveApi)
  /\ UNCHANGED <<storeVars, settingsVars, driveReady, mutations, maskVars, workflowVars>>
  /\ persistIfMounted

\* ------------------------------------------------------------------------
\* loadFromDrive and loadAllFromDrive: the ledger read back from the Drive
\* ------------------------------------------------------------------------
ErrNoData == <<"No data found on Drive">>
LoadRequest == FileName("load", EmptyId)
LoadOutcomes == {"ok", "error"}

\* a.localeCompare(b) < 0 for the date strings of the bills: digits and '-'
\* compared character by character, a proper prefix first
CharRank(c) ==
  IF c = "-" THEN 0
  ELSE 1 + CHOOSE n \in 0..9 : <<"0", "1", "2", "3", "4", "5", "6", "7", "8", "9">>[n + 1] = c
RECURSIVE dateBefore(_, _)
dateBefore(a, b) ==
  IF b = <<>> THEN FALSE
  ELSE IF a = <<>> THEN TRUE
  ELSE IF Head(a) # Head(b) THEN CharRank(Head(a)) < CharRank(Head(b))
  ELSE dateBefore(Tail(a), Tail(b))

\* bills.sort((a, b) => b.date.localeCompare(a.date)): latest date first,
\* bills of one date in the order they were read
RECURSIVE sortByDateDesc(_)
sortByDateDesc(bs) ==
  IF bs = <<>> THEN <<>>
  ELSE LET rest == sortByDateDesc(Tail(bs))
           later == Cardinality({j \in 1..Len(rest) : dateBefore(Head(bs).date, rest[j].date)})
       IN SubSeq(rest, 1, later) \o <<Head(bs)>> \o SubSeq(rest, later + 1, Len(rest))

\* what loadAllFromDrive reads: the vendors of the vendors file or [], the
\* settings file or {}, every file of the bills folder, sorted
FilesOfKind(kind) == SelectSeq(remote, LAMBDA f : f.name.kind = kind)
loadAllFromDrive ==
  [vendors |-> IF FilesOfKind("vendors") = <<>> THEN <<>> ELSE FilesOfKind("vendors")[1].data.vendors,
   settings |-> IF FilesOfKind("settings") = <<>> THEN <<>> ELSE <<FilesOfKind("settings")[1]>>,
   bills |-> sortByDateDesc([i \in 1..Len(FilesOfKind("bill")) |-> FilesOfKind("bill")[i].data])]

\* loadFromDrive up to its first await. The Settings screen calls it when it
\* mounts and from the Load button, both only while the status is connected
\* and not syncing. A module without token starts with initDrive.
loadFromDrive ==
  /\ MutationGuard
  /\ driveStatus.connected
  /\ ~driveStatus.syncing
  /\ driveStatus' = [driveStatus EXCEPT !.syncing = TRUE, !.syncError = Null]
  /\ tasks' = Append(tasks, [Task("load", LoadRequest, <<>>) EXCEPT
                               !.pc = IF driveReady THEN "read" ELSE "init"])
  /\ mutations' = mutations + 1
  /\ UNCHANGED <<storeVars, settingsVars, driveReady, remote, maskVars, workflowVars>>
  /\ persistMirrored

\* initDrive inside loadAllFromDrive resolves, or throws and the load gives null
loadInitResolved(i, outcome) ==
  /\ i \in 1..Len(tasks)
  /\ tasks[i].pc = "init"
  /\ IF outcome = "ok"
     THEN /\ driveReady' = TRUE
          /\ tasks' = [tasks EXCEPT ![i].pc = "read"]
          /\ driveStatus' = driveStatus
     ELSE /\ driveReady' = driveReady
          /\ tasks' = RemoveAt(tasks, i)
          /\ syncFailed(ErrNoData)
  /\ UNCHANGED <<storeVars, settingsVars, remote, mutations, maskVars, workflowVars>>
  /\ persistIfMounted

\* the reads of loadAllFromDrive have resolved, or one has thrown and the
\* load gives null; the updater merges the data into the latest state
loadResolved(i, outcome) ==
  /\ i \in 1..Len(tasks)
  /\ tasks[i].pc = "read"
  /\ tasks' = RemoveAt(tasks, i)
  /\ IF outcome = "ok" /\ mounted
     THEN LET data == loadAllFromDrive IN
          /\ vendors' = IF Len(data.vendors) > 0 THEN data.vendors ELSE vendors
          /\ bills' = IF Len(data.bills) > 0 THEN data.bills ELSE bills
          /\ monthlyTarget' = IF data.settings # <<>> THEN data.settings[1].data.monthlyTarget
                              ELSE monthlyTarget
          /\ user' = IF data.settings # <<>> THEN data.settings[1].data.user @@ user ELSE user
          /\ driveStatus' = [driveStatus EXCEPT !.syncing = FALSE, !.lastSync = <<now>>]
     ELSE /\ UNCHANGED <<vendors, bills, monthlyTarget, user>>
          /\ IF outcome = "ok" THEN driveStatus' = driveStatus ELSE syncFailed(ErrNoData)
  /\ UNCHANGED <<activeTab, now, driveReady, remote, mutations, maskVars, workflowVars>>
  /\ persistIfMounted

MirrorInit ==
  /\ vendors = <<>>
  /\ bills = <<>>
  /\ monthlyTarget = 0
  /\ user = DefaultUser
  /\ \E c \in BOOLEAN : driveStatus = [DriveOff EXCEPT !.connected = c]
  /\ driveReady = FALSE
  /\ remote = <<>>
  /\ tasks = <<>>
  /\ mutations = 0
  /\ storage = <<[driveStatus |-> [connected |-> driveStatus.connected, lastSync |-> NeverSynced]]
                   @@ pickPersistable(user, vendors, bills, monthlyTarget)>>
  /\ quota \in MirrorQuotas
  /\ mounted = TRUE
  /\ now = 0
  /\ activeTab = "home"
  /\ ViewInit
  /\ DraftInit
  /\ pc = "idle"
  /\ file = NoFile
  /\ skipDuplicateCheck = FALSE
  /\ toast = ""
  /\ requests = <<>>
  /\ steps = <<>>
  /\ ledgerAtStart = NoLedger
  /\ edits = 0
  /\ MaskAtRest

MirrorNext ==
  \/ connectDrive
  \/ \E in \in MirrorVendorInputs, t \in Readings : addVendorSynced(in[1], in[2], t)
  \/ \E id \in VendorIds, in \in MirrorVendorUpdates : updateVendorSynced(id, in[1], in[2])
  \/ \E id \in VendorIds : deleteVendorSynced(id)
  \/ \E bill \in MirrorBillInputs, t \in Readings : addBillSynced(bill, t)
  \/ \E id \in BillIds : deleteBillSynced(id)
  \/ \E val \in TargetInputs : setMonthlyTarget(val)
  \/ \E profile \in ProfileInputs : setUserProfile(profile)
  \/ \E i \in 1..MaxMutations, outcome \in FindOutcomes : findResolved(i, outcome)
  \/ \E i \in 1..MaxMutations, outcome \in WriteOutcomes : writeResolved(i, outcome)
  \/ \E i \in 1..MaxMutations, outcome \in FindOutcomes : removeResolved(i, outcome)
  \/ loadFromDrive
  \/ \E i \in 1..MaxMutations, outcome \in LoadOutcomes : loadInitResolved(i, outcome)
  \/ \E i \in 1..MaxMutations, outcome \in LoadOutcomes : loadResolved(i, outcome)

MirrorSpec == MirrorInit /\ [][MirrorNext]_vars

\* ------------------------------------------------------------------------
\* Claims about the Drive mirror
\* ------------------------------------------------------------------------

\* C15: with the mirror connected, a mirror write that fails, be it the
\* creation of a file or the update of an existing one, makes
\* driveStatus.syncError non-null and leaves vendors, bills, monthlyTarget
\* and user as the mutation left them.
C15_FailedWriteSetsSyncError ==
  [][\A i \in 1..MaxMutations, outcome \in WriteOutcomes \ {"ok"} :
       (mounted /\ writeResolved(i, outcome) /\ ~writeResolved(i, "ok"))
         => /\ driveStatus'.syncError # Null
            /\ UNCHANGED <<vendors, bills, monthlyTarget, user>>]_vars

\* C16: a mutation whose write to localStorage fails changes the state in
\* memory all the same, and the store goes on serving mutations and reads.
C16_StoreSurvivesFailedWrite ==
  [][\A in \in MirrorVendorInputs, t \in Readings :
       (addVendorSynced(in[1], in[2], t) /\ Len(vendors') + Len(bills') > quota)
         => /\ vendors' = Append(vendors, Vendor(t, in[1], in[2]))
            /\ mounted']_vars

\* C17: whatever the order and the interleaving of the saves, the remote
\* folders hold at most one file of each name.
C17_OneFilePerName ==
  \A i, j \in 1..Len(remote) : remote[i].name = remote[j].name => i = j

\* ------------------------------------------------------------------------
\* The masking engine on its own: maskSensitiveData applied to a text and
\* then to its own output
\* ------------------------------------------------------------------------
MaxTokens == 2

tokIfsc == <<"K", "K", "B", "K", "0", "0", "0", "2", "8", "6", "4">>
tokAcct == <<"1", "2", "3", "4", "5", "6", "7", "8", "9", "0", "1", "2">>
tokAmount == <<"4", "8", "0", ".", "0", "0">>
tokUpi == <<"9", "9", "9", "8", "0", "8", "3", "8", "1", "2", "@", "k", "o", "t", "a", "k">>
tokHandle == <<"p", "a", "y", "@", "y", "b", "l">>
tokEmail == <<"c", "o", "n", "t", "a", "c", "t", "@", "g", "m", "a", "i", "l", ".", "c", "o", "m">>
tokWord == <<"T", "o", "t", "a", "l">>

Tokens == {tokIfsc, tokAcct, tokAmount, tokUpi, tokHandle, tokEmail, tokWord}
Separators == {<<>>, <<" ">>}

\* the texts of at most n tokens, two neighbours joined with or without a
\* space
RECURSIVE TextsOf(_)
TextsOf(n) ==
  IF n = 1 THEN Tokens
  ELSE LET shorter == TextsOf(n - 1) IN
       shorter \cup {t \o sep \o k : t \in shorter, sep \in Separators, k \in Tokens}

MaskInputs == TextsOf(MaxTokens)

\* the text a pass works on: the input, then the output of the pass before
passInput == IF maskPasses = <<>> THEN maskText ELSE Last(maskPasses).maskedText

maskPass ==
  /\ Len(maskPasses) < 2
  /\ maskPasses' = Append(maskPasses, maskSensitiveData(passInput))
  /\ UNCHANGED <<maskText, storeVars, settingsVars, storage, quota, mounted, mirrorVars, workflowVars>>

MaskInit ==
  /\ maskText \in MaskInputs
  /\ maskPasses = <<>>
  /\ vendors = defaultState.vendors
  /\ bills = defaultState.bills
  /\ monthlyTarget = defaultState.monthlyTarget
  /\ user = defaultState.user
  /\ storage = <<defaultState>>
  /\ quota = MaxRecords
  /\ mounted = TRUE
  /\ now = 0
  /\ activeTab = "home"
  /\ ViewInit
  /\ DraftInit
  /\ pc = "idle"
  /\ file = NoFile
  /\ skipDuplicateCheck = FALSE
  /\ toast = ""
  /\ requests = <<>>
  /\ steps = <<>>
  /\ ledgerAtStart = NoLedger
  /\ edits = 0
  /\ MirrorAtRest

MaskNext == maskPass

MaskSpec == MaskInit /\ [][MaskNext]_vars

Reported(pass) == {pass.maskedFields[i] : i \in 1..Len(pass.maskedFields)}

\* C18: masking is idempotent: a second pass over the output of the first
\* returns the same text and reports no category.
C18_MaskIdempotent ==
  Len(maskPasses) = 2 =>
    /\ maskPasses[2].maskedText = maskPasses[1].maskedText
    /\ maskPasses[2].maskedFields = <<>>

\* C19: an ordinary e-mail address such as contact@gmail.com is left as it
\* is and 'UPI ID' is not reported for it.
C19_EmailUntouched ==
  (maskText = tokEmail /\ Len(maskPasses) >= 1) =>
    /\ maskPasses[1].maskedText = tokEmail
    /\ FieldUpi \notin Reported(maskPasses[1])

\* C20: an IFSC code and a run of 9 to 18 digits are replaced by their
\* placeholders and reported, an amount such as 480.00 is left alone, a UPI
\* handle such as 9998083812@kotak is replaced as a whole and reported as
\* 'UPI ID'; a category is reported exactly when the input held a token of it.
C20_TokensMaskedByCategory ==
  Len(maskPasses) >= 1 =>
    /\ maskText = tokIfsc =>
         maskPasses[1] = [maskedText |-> IfscMasked, maskedFields |-> <<FieldIfsc>>]
    /\ maskText = tokAcct =>
         maskPasses[1] = [maskedText |-> AcctMasked, maskedFields |-> <<FieldAcct>>]
    /\ maskText = tokAmount =>
         maskPasses[1] = [maskedText |-> tokAmount, maskedFields |-> <<>>]
    /\ maskText \in {tokUpi, tokHandle} =>
         maskPasses[1] = [maskedText |-> UpiMasked, maskedFields |-> <<FieldUpi>>]

\* ------------------------------------------------------------------------
\* Claims about the draft, the stages and the termination of a session
\* ------------------------------------------------------------------------
LowConfidence == Conf("low", "low", "low")

\* C21: when an otherwise valid response lacks fields, the session still
\* reaches Review, each missing text field (customerName, amount, billNumber,
\* vendorHint) is the empty string in the draft, and a missing confidence is
\* taken as 'low' for customerName, amount and date.
C21_MissingFieldsDefault ==
  [][\A r \in Results :
       (pdfScanResolved(<<r>>) \/ imageScanResolved(<<r>>)) =>
         /\ stage' = "review"
         /\ r.customerName = Empty => extractedCustomer' = Empty
         /\ r.amount = Empty => extractedAmount' = Empty
         /\ r.billNumber = Empty => extractedBillNo' = Empty
         /\ r.vendorHint = Empty => vendorHint' = Empty
         /\ r.confidence = <<>> => confidence' = LowConfidence]_vars

\* C22: on entering Review the selected vendor is the vendor whose name
\* equals the detected issuer case-insensitively, else a vendor matched by
\* the first-token containment check, else the first configured vendor.  The
\* selection is empty only when no vendors exist, also for an empty or
\* unmatched hint, and a non-empty selection is the id of a vendor.
C22_VendorAutoSelect ==
  [][\A r \in Results :
       (pdfScanResolved(<<r>>) \/ imageScanResolved(<<r>>)) =>
         LET h == trim(toLowerCase(r.vendorHint))
             exact == {i \in 1..Len(vendors) : toLowerCase(vendors[i].name) = h}
             partial == {i \in 1..Len(vendors) :
                           \/ includes(toLowerCase(vendors[i].name), FirstToken(h))
                           \/ includes(h, FirstToken(toLowerCase(vendors[i].name)))}
             first(S) == vendors[CHOOSE i \in S : \A j \in S : i <= j].id
         IN /\ extractedVendorId' = EmptyId <=> vendors = <<>>
            /\ vendors # <<>> =>
                 /\ extractedVendorId' \in VendorIds
                 /\ extractedVendorId' = IF exact # {} THEN first(exact)
                                         ELSE IF partial # {} THEN first(partial)
                                         ELSE vendors[1].id]_vars

\* C23: the stage is Processing exactly while the field-extraction request is
\* in flight, on the PDF path and on the image path: Processing in every
\* state where the request is sent and not yet answered, never Processing
\* before the masking or after the answer.
C23_ProcessingWhileInFlight ==
  stage = "processing" <=> pc \in {"pdf_scan", "image_scan"}

\* C24: no draft outlives its session: whenever the stage is Upload after a
\* save, after Upload Different Bill or after a failed step, every draft
\* value and the masked-field list are back at their empty initial values.
C24_NoDraftAtUpload ==
  stage = "upload" =>
    /\ extractedDate = Empty
    /\ extractedVendorId = EmptyId
    /\ extractedCustomer = Empty
    /\ extractedAmount = Empty
    /\ extractedBillNo = Empty
    /\ vendorHint = Empty
    /\ confidence = HighConfidence
    /\ maskedFields = <<>>

\* the completion, by success or by failure, of the asynchronous step a
\* session waits for: library load, file read, text extraction, OCR, request
asyncStepCompletes ==
  \/ pdfTextFailed
  \/ pdfScanFailed
  \/ imageTextFailed
  \/ imageScanFailed
  \/ pdfTextExtracted
  \/ \E r \in Responses : pdfScanResolved(r)
  \/ imageTextExtracted
  \/ \E r \in Responses : imageScanResolved(r)

\* the capture workflow under the assumption that every asynchronous step
\* eventually completes or fails; the user's actions are not forced
LiveSpec == Init /\ [][Next]_vars /\ WF_vars(asyncStepCompletes)

\* C26: every capture session terminates: if each asynchronous step
\* eventually completes or fails, a session that has left Upload eventually
\* reaches Review, Duplicate or Upload again; the stage never stays in
\* Extracting or Processing forever.
C26_SessionsTerminate ==
  (stage \in {"extracting", "processing"}) ~> (stage \in {"review", "duplicate", "upload"})

\* C28: in every state of the capture workflow the stage is Duplicate if
\* and only if a pending file is held, and then duplicateBill holds a bill
\* of the ledger the check ran against; Go Back, Scan Anyway and the
\* selection of a new file each leave the pending file and the duplicate
\* record cleared.
C28_DuplicateIffPendingFile ==
  /\ [](/\ stage = "duplicate" <=> pendingFile # <<>>
        /\ stage = "duplicate" =>
             /\ duplicateBill # <<>>
             /\ \E i \in 1..Len(bills) : bills[i] = duplicateBill[1].existingBill)
  /\ [][(goBack \/ scanAnyway \/ \E f \in Files : handleFile(f)) =>
          /\ pendingFile' = <<>>
          /\ duplicateBill' = <<>>]_vars

C28_Witness ==
  /\ stage = "upload"
  /\ activeTab = "upload"
  /\ steps = <<"extract", "dupcheck">>
  /\ pendingFile = <<>>
  /\ duplicateBill = <<>>
  /\ bills # <<>>

\* C25: mutations of the ledger are applied against the latest snapshot: when
\* one event issues two mutations back to back, before any re-render (two
\* addBill, an addBill and an addVendor, the deleteVendor calls of a bulk
\* delete), the resulting ledger is the one of applying them one after the
\* other, with the effects of both present and nothing else changed.
C25_BatchedMutationsCompose ==
  [][/\ \A queue \in TwoBills, ts \in BatchReadings :
          mutationsInOneEvent(queue, ts) =>
            /\ vendors' = vendors
            /\ bills' = <<[id |-> Id("b", ts[2])] @@ queue[2].bill,
                          [id |-> Id("b", ts[1])] @@ queue[1].bill>> \o bills
     /\ \A queue \in BillAndVendor, ts \in BatchReadings :
          mutationsInOneEvent(queue, ts) =>
            /\ bills' = <<[id |-> Id("b", ts[1])] @@ queue[1].bill>> \o bills
            /\ vendors' = vendors \o <<Vendor(ts[2], queue[2].name, queue[2].cutPercent)>>
     /\ \A queue \in BulkDeletes, ts \in BatchReadings :
          mutationsInOneEvent(queue, ts) =>
            LET ids == {queue[1].id, queue[2].id} IN
              /\ vendors' = SelectSeq(vendors, LAMBDA v : v.id \notin ids)
              /\ bills' = SelectSeq(bills, LAMBDA b : b.vendorId \notin ids)]_vars

\* two bills were added by one event: both are in the ledger, and storage,
\* which takes one record less than the ledger now holds, still has the ledger
\* from before the event, two records short: no intermediate ledger with only
\* the first bill was ever rendered or persisted
C25_Witness ==
  /\ Len(bills) >= 2
  /\ bills[1].amount = 200
  /\ bills[2].amount = 5000
  /\ Len(vendors) + Len(bills) = quota + 1
  /\ storage # <<>>
  /\ Len(storage[1].vendors) + Len(storage[1].bills) = quota - 1

\* C27: driveStatus.syncing tells whether the mirror is writing: it is true
\* in every state where at least one mirror write is in progress and false
\* in every state where none is, also when writes overlap (states with a
\* load from the Drive in progress, which sets the flag too, set aside).
C27_SyncingWhileWriting ==
  (mounted /\ \A i \in 1..Len(tasks) : tasks[i].kind # "load")
    => (driveStatus.syncing <=> tasks # <<>>)

\* C29: a bill of the ledger stays in it, unchanged, over every step that is
\* not a mutation deleting the bills of its id or deleting its vendor (the
\* only steps that count a mutation and filter by that id); a loadFromDrive
\* that completes after an addBill does not drop or replace the added bill,
\* and a loadFromDrive that fails leaves vendors, bills, monthlyTarget and
\* user unchanged.
C29_BillsStayUntilDeleted ==
  [][/\ \A k \in 1..Len(bills) :
          \/ \E j \in 1..Len(bills') : bills'[j] = bills[k]
          \/ /\ mutations' = mutations + 1
             /\ \/ bills' = SelectSeq(bills, LAMBDA b : b.id # bills[k].id)
                \/ /\ vendors' = SelectSeq(vendors, LAMBDA v : v.id # bills[k].vendorId)
                   /\ vendors' # vendors
     /\ \A i \in 1..MaxMutations :
          \/ UNCHANGED <<vendors, bills, monthlyTarget, user>>
          \/ ~(loadResolved(i, "error") \/ loadInitResolved(i, "error"))]_vars

\* C30: driveStatus.lastSync advances only when a mirror write has stored
\* data: a vendor or settings mutation made while the status says connected
\* but the Drive module holds no token sets syncError or leaves lastSync as it
\* was, and a write whose request failed leaves lastSync as it was.
C30_LastSyncOnlyAfterStore ==
  [][/\ \A id \in VendorIds, in \in MirrorVendorInputs \cup MirrorVendorUpdates,
          t \in Readings, val \in TargetInputs, profile \in ProfileInputs :
          ( /\ driveStatus.connected /\ ~driveReady
            /\ \/ addVendorSynced(in[1], in[2], t)
               \/ updateVendorSynced(id, in[1], in[2])
               \/ deleteVendorSynced(id)
               \/ setMonthlyTarget(val)
               \/ setUserProfile(profile) )
            => \/ driveStatus'.syncError # Null
               \/ driveStatus'.lastSync = driveStatus.lastSync
     /\ \A i \in 1..MaxMutations, outcome \in WriteOutcomes \ {"ok"} :
          (writeResolved(i, outcome) /\ ~writeResolved(i, "ok"))
            => driveStatus'.lastSync = driveStatus.lastSync]_vars

====
